---- MODULE Spec2Model ----
(***************************************************************************)
(* Verification model of the bg3-hud-dnd5e adapter (D&D 5e glue for the    *)
(* BG3 HUD of a virtual tabletop host).  Each handler of the adapter is an *)
(* asynchronous function: one action of the model is the code that runs    *)
(* between two awaits.  Host calls (fromUuid, createEmbeddedDocuments,     *)
(* item.use, settings, flags) are modelled by their effect on the host     *)
(* state and by a nondeterministic choice over their outcomes.             *)
(***************************************************************************)
EXTENDS Integers, Sequences, FiniteSets, TLC

Null == "null"

(***************************************************************************)
(* Bounds of the model                                                     *)
(***************************************************************************)
\* number of _useItem calls that may be in flight together
NumCalls == 1

\* number of times bg3HudReady fires
NumFirings == 2

\* number of rolls whose hook handlers may be in flight together
NumRolls == 2

\* number of render() runs of the Generic Actions container that are followed
MaxRenders == 3

\* number of actions the CPRActions pack offers in the selection dialog
NumDialogActions == 7

\* most contents a container holds, and most of them that fail to resolve
MaxContents == 18
MaxSkipped == 2

\* most items on the actor handed to autoPopulatePassives
MaxActorItems == 2

\* how long a token creation is followed, in steps of 50 ms
MaxTicks == 6

(***************************************************************************)
(* Host documents                                                          *)
(***************************************************************************)
\* ids the host hands out to embedded documents, in the order it does
IdPool == <<"i1", "i2", "i3", "i4", "i5">>

\* names of the two Generic Actions items of CPRMiscellaneous
GA_NAME_LEGACY == "Generic Actions (2014)"
GA_NAME_MODERN == "Generic Actions (2024)"

\* compendium documents a cell may point to: key |-> name
CompendiumNames ==
    [ ga2014 |-> GA_NAME_LEGACY, ga2024 |-> GA_NAME_MODERN, dash |-> "Dash" ]

CompendiumKeys == DOMAIN CompendiumNames

\* a uuid is a compendium reference, or a reference to an item embedded on
\* the actor
CompendiumUuid(k) == [src |-> "compendium", key |-> k]
EmbeddedUuid(id)  == [src |-> "actor", key |-> id]

VARIABLES
    \* ---- host state shared by the item handlers
    actorItems,     \* actor.items: set of [id, name]
    nextId,         \* index in IdPool of the next id the host assigns
    \* ---- DnD5eAdapter._useItem, one entry per call
    usePc,          \* where the call stands
    useResolved,    \* what fromUuid returned: Null or a document
    createdItemId,  \* local createdItemId (Null when none)
    itemToUse,      \* id of local itemToUse (Null when none)
    useCreates,     \* createEmbeddedDocuments calls of this call
    useDeletes,     \* deleteEmbeddedDocuments calls of this call
    useInvoked,     \* item.use() invocations of this call
    useOutcome,     \* how the call ended
    useTargets,     \* what startTargetSelection answered, or "notAsked"
    hostItems,      \* actor.items as it would be had _useItem never run
    \* ---- world settings
    rulesVersion,   \* setting dnd5e.rulesVersion
    cprSettings,    \* settings selectedCPRActionsModern / selectedCPRActionsLegacy
    \* ---- DnD5eCPRAutoPopulate.populateQuickAccess, one entry per run
    persisted,      \* the actor's HUD state as the PersistenceManager keeps it
    popPc,          \* where the run stands
    popUuids,       \* argument actionUuids
    popBad,         \* the given uuids that fromUuid does not resolve
    popState,       \* local state (loaded copy, then modified)
    popLoadedCount, \* number of items grid 0 held when the state was loaded
    popSaves,       \* saveState calls that took effect in this run
    popRefreshes,   \* HUD refreshes of this run
    popOutcome,     \* how the run ended
    \* ---- the bg3HudReady handler, one entry per firing
    readyPc,        \* where the handler stands
    readyConfig,    \* cprConfig of initializeDefaultActions (a rules version)
    readyDefaults,  \* defaultUuids
    readySawSelection, \* currentSelection held a uuid when it was read
    readyWrites,    \* game.settings.set calls of this firing
    readyPackFound, \* per firing: what game.packs.get gave ("notAsked", "found", "missing")
    advantageHooksRegistered, \* module variable advantageHooksRegistered
    hookHandlers,   \* Hooks: handlers registered per roll event
    advCalls,       \* calls of registerAdvantageHooks so far
    \* ---- handleRollAdvantage, one entry per roll
    midiActive,     \* game.modules.get('midi-qol')?.active
    advSetting,     \* setting addAdvBtnsMidiQoL
    hudCurrentActor, \* ui.BG3HUD_APP.currentActor ("none" when there is none)
    advFlags,       \* per actor: flags advState and advOnce
    rollPc,         \* where the handler of the roll stands
    rollConfig,     \* the rollConfig handed to the hook
    advOnceApplied, \* per actor: rolls the hook gave the one-time state to since it was set
    \* ---- shouldBlockFromHotbar
    dropItem,       \* the item handed to shouldBlockFromHotbar
    blockCPRActions, \* setting blockCPRActionsOnHotbar
    cprModuleActive, \* game.modules.get('chris-premades')?.active
    blockResult,    \* "idle", "notCalled" once an item is dropped, then what the call returned
    \* ---- DnD5eCPRGenericActionsContainer
    contActor,      \* this.actor ("none" for null)
    contElement,    \* whether this.element exists
    contDisplay,    \* this.element.style.display ("" before it is set)
    contChildren,   \* the children of this.element, in order
    contCprActive,  \* game.modules.get('chris-premades')?.active
    enableCPRGenericActions, \* setting enableCPRGenericActions
    contLastOp,     \* the last thing that happened to the container
    contVisibleSeen, \* what the visible getter returned when last read
    contRenders,    \* number of render() runs so far
    \* ---- DnD5eCPRGenericActionsContainer._onClick, one click at a time
    clickPc,        \* where the click handler stands ("idle": no click in flight)
    clickVersion,   \* rulesVersion as the click read it
    clickHadItem,   \* whether the click found the item on the actor
    clickData,      \* name in the data cloned from the compendium item
    clickItem,      \* id of actorItem, Null while there is none
    clickCreated,   \* items the click created, with the option passed
    clickUsed,      \* id of the item whose use() the click called
    clickOutcome,   \* how the last click ended ("none" before the first)
    \* ---- CPRActionsSelectionDialog
    dlgOpen,        \* the dialog is rendered and not closed
    availableActions, \* this.availableActions: the uuids of the rows
    selectedActions, \* this.selectedActions, in insertion order
    dlgChecked,     \* checkbox.checked of each row
    dlgDisabled,    \* checkbox.disabled of each row
    dlgLastChange,  \* the last change event: row, checked as the handler got it, size before
    dlgWarned,      \* the last change showed the MaxSelectionsReached warning
    dlgResolved,    \* what the promise of render() resolved with
    \* ---- getContainerContents, one call
    gcPc,           \* "idle", "loop" while contents are fetched, "done"
    gcContents,     \* containerItem.system.contents
    gcPos,          \* number of contents the loop has gone through
    gcIndex,        \* local index
    gcItems,        \* local items
    gcFetched,      \* the uuids fromUuid resolved, in order
    gcResult,       \* the grid data returned
    \* ---- autoPopulatePassives, one call
    passActor,      \* the actor argument: present or null, and its items
    autoPopulatePassivesEnabled, \* setting autoPopulatePassivesEnabled
    selectedPassives, \* the actor's flag selectedPassives
    passPc,         \* "idle" before the call, "done" after it
    passWrites,     \* number of setFlag calls the call made
    \* ---- token creation: onTokenCreation next to the host's own population
    tcClock,        \* time since the token was created, in steps of 50 ms
    tcPc,           \* where onTokenCreation stands
    tcTimerAt,      \* time at which the 200 ms timeout is due
    tcOutcome,      \* how onTokenCreation went on after the wait
    hostPc,         \* what the host populates next: grid0, grid1, grid2, passives; then done
    hostReadyAt     \* time from which the host's next step can happen

itemVars == <<actorItems, nextId>>

useVars == <<usePc, useResolved, createdItemId, itemToUse, useCreates,
             useDeletes, useInvoked, useOutcome, useTargets, hostItems>>

cfgVars == <<rulesVersion, cprSettings>>

popVars == <<persisted, popPc, popUuids, popBad, popState, popLoadedCount,
             popSaves, popRefreshes, popOutcome>>

readyVars == <<readyPc, readyConfig, readyDefaults, readySawSelection, readyWrites, advantageHooksRegistered, hookHandlers, advCalls, readyPackFound>>

advVars == <<midiActive, advSetting, hudCurrentActor, advFlags, rollPc, rollConfig, advOnceApplied>>

blockVars == <<dropItem, blockCPRActions, cprModuleActive, blockResult>>

contVars == <<contActor, contElement, contDisplay, contChildren, contCprActive, enableCPRGenericActions, contLastOp, contVisibleSeen, contRenders>>

clickVars == <<clickPc, clickVersion, clickHadItem, clickData, clickItem, clickCreated, clickUsed, clickOutcome>>

dlgVars == <<dlgOpen, availableActions, selectedActions, dlgChecked, dlgDisabled, dlgLastChange, dlgWarned, dlgResolved>>

gcVars == <<gcPc, gcContents, gcPos, gcIndex, gcItems, gcFetched, gcResult>>

passVars == <<passActor, autoPopulatePassivesEnabled, selectedPassives, passPc, passWrites>>

tcVars == <<tcClock, tcPc, tcTimerAt, tcOutcome, hostPc, hostReadyAt>>

vars == <<itemVars, useVars, cfgVars, popVars, readyVars, advVars, blockVars, contVars, clickVars, dlgVars, gcVars, passVars, tcVars>>

\* what the actions of each handler leave alone
useFrame == <<cfgVars, popVars, readyVars, advVars, blockVars, contVars, clickVars, dlgVars, gcVars, passVars, tcVars>>
popFrame == <<itemVars, useVars, cfgVars, readyVars, advVars, blockVars, contVars, clickVars, dlgVars, gcVars, passVars, tcVars>>
readyFrame == <<itemVars, useVars, popVars, advVars, blockVars, contVars, clickVars, dlgVars, gcVars, passVars, tcVars>>
advFrame == <<itemVars, useVars, cfgVars, popVars, readyVars, blockVars, contVars, clickVars, dlgVars, gcVars, passVars, tcVars>>
blockFrame == <<itemVars, useVars, cfgVars, popVars, readyVars, advVars, contVars, clickVars, dlgVars, gcVars, passVars, tcVars>>
contFrame == <<itemVars, useVars, cfgVars, popVars, readyVars, advVars, blockVars, clickVars, dlgVars, gcVars, passVars, tcVars>>
clickFrame == <<useVars, cfgVars, popVars, readyVars, advVars, blockVars, contVars, dlgVars, gcVars, passVars, tcVars>>
dlgFrame == <<itemVars, useVars, cfgVars, popVars, readyVars, advVars, blockVars, contVars, clickVars, gcVars, passVars, tcVars>>
gcFrame == <<itemVars, useVars, cfgVars, popVars, readyVars, advVars, blockVars, contVars, clickVars, dlgVars, passVars, tcVars>>
passFrame == <<itemVars, useVars, cfgVars, popVars, readyVars, advVars, blockVars, contVars, clickVars, dlgVars, gcVars, tcVars>>
tcFrame == <<itemVars, useVars, cfgVars, readyVars, advVars, blockVars, contVars, clickVars, dlgVars, gcVars, passVars>>

Calls == 1..NumCalls

ItemIdsOf(items) == {it.id : it \in items}

RemoveItem(items, id) == {it \in items : it.id # id}

\* actor.items.has(id)
HasItem(id) == id \in ItemIdsOf(actorItems)

\* the null document: what fromUuid gives for a uuid that does not resolve
NoDoc == [found |-> FALSE, parent |-> Null, name |-> Null, id |-> Null]

\* fromUuid(uuid): the document, or null when it does not resolve.  packOk
\* says whether the compendium pack holds the entry.
FromUuid(uuid, packOk) ==
    IF uuid.src = "actor"
    THEN IF HasItem(uuid.key)
         THEN LET it == CHOOSE i \in actorItems : i.id = uuid.key
              IN  [found |-> TRUE, parent |-> "actor", name |-> it.name,
                   id |-> it.id]
         ELSE NoDoc
    ELSE IF packOk
         THEN [found |-> TRUE, parent |-> Null,
               name |-> CompendiumNames[uuid.key], id |-> uuid.key]
         ELSE NoDoc

(***************************************************************************)
(* DnD5eAdapter._useItem                                                   *)
(***************************************************************************)
\* local resolved before fromUuid has answered, and when it answers null
NoResolved == [found |-> FALSE, parent |-> Null, name |-> Null, id |-> Null,
               hasUse |-> FALSE, needsTargeting |-> FALSE]

\* resolved.parent ?? ui.BG3HUD_APP?.currentActor ?? controlled[0]?.actor ?? null
ActorFor(resolved, hudActor, controlledActor) ==
    IF resolved.parent # Null THEN "actor"
    ELSE IF hudActor THEN "actor"
    ELSE IF controlledActor THEN "actor"
    ELSE Null

\* a variant of IsEmbedded that takes every item for a compendium item
IsEmbeddedNever(resolved) == FALSE

\* const isEmbedded = !!resolved.parent
IsEmbedded(resolved) == resolved.parent # Null

\* uuids a cell may hold
UseUuids == {CompendiumUuid(k) : k \in CompendiumKeys}
            \cup {EmbeddedUuid(IdPool[i]) : i \in 1..3}

\* what startTargetSelection can give back
TargetResults == {"selected", "empty", "null", "undefined", "throws"}

\* a variant of TargetsCancelled that takes only null and undefined for a
\* cancellation
TargetsCancelledNoEmpty(r) == r \in {"null", "undefined"}

\* !targets || targets.length === 0
TargetsCancelled(r) == TargetsCancelledNoEmpty(r) \/ r = "empty"

\* a variant of CleanupPc that cleans up only after a normal return
CleanupPcNoFinally(created, how, items) ==
    IF how # "throws" /\ created # Null /\ created \in ItemIdsOf(items)
    THEN "cleanup" ELSE "done"

\* if (createdItemId && actor.items.has(createdItemId)) await delete...
\* created: the local createdItemId; how: the way the guard was reached
CleanupPc(created, how, items) ==
    IF created # Null /\ created \in ItemIdsOf(items)
    THEN "cleanup" ELSE "done"

\* lines 1526-1543, up to the first await: use the item or give up
UseOrGiveUp(c, resolved, created, items) ==
    IF resolved.hasUse
    THEN /\ usePc' = [usePc EXCEPT ![c] = "using"]
         /\ useInvoked' = [useInvoked EXCEPT ![c] = @ + 1]
         /\ UNCHANGED useOutcome
    ELSE /\ usePc' = [usePc EXCEPT ![c] = CleanupPc(created, "cannotUse", items)]
         /\ useOutcome' = [useOutcome EXCEPT ![c] = "cannotUse"]
         /\ UNCHANGED useInvoked

\* lines 1486-1543, up to the first await, once itemToUse is known
Targeting(c, resolved, created, items, targetSelectorEnabled, sourceToken) ==
    LET needsTargeting == targetSelectorEnabled /\ resolved.needsTargeting
    IN  IF needsTargeting /\ sourceToken
        THEN /\ usePc' = [usePc EXCEPT ![c] = "targeting"]
             /\ UNCHANGED <<useInvoked, useOutcome>>
        ELSE UseOrGiveUp(c, resolved, created, items)

\* _useItem(uuid, event) up to its second await
UseStart(c, uuid, packOk, hasUse, needsT, hudActor, controlledActor, targetSelectorEnabled, sourceToken) ==
    /\ usePc[c] = "idle"
    /\ LET doc == FromUuid(uuid, packOk)
           resolved == [found |-> doc.found, parent |-> doc.parent,
                        name |-> doc.name, id |-> doc.id,
                        hasUse |-> doc.found /\ hasUse,
                        needsTargeting |-> doc.found /\ needsT]
       IN  /\ useResolved' = [useResolved EXCEPT ![c] = resolved]
           /\ IF ~resolved.found
              THEN /\ usePc' = [usePc EXCEPT ![c] = "done"]
                   /\ useOutcome' = [useOutcome EXCEPT ![c] = "notFound"]
                   /\ UNCHANGED <<itemToUse, useInvoked>>
              ELSE IF ActorFor(resolved, hudActor, controlledActor) = Null
              THEN /\ usePc' = [usePc EXCEPT ![c] = "done"]
                   /\ useOutcome' = [useOutcome EXCEPT ![c] = "noActor"]
                   /\ UNCHANGED <<itemToUse, useInvoked>>
              ELSE IF ~IsEmbedded(resolved)
              THEN /\ usePc' = [usePc EXCEPT ![c] = "creating"]
                   /\ UNCHANGED <<itemToUse, useInvoked, useOutcome>>
              ELSE /\ itemToUse' = [itemToUse EXCEPT ![c] = resolved.id]
                   /\ Targeting(c, resolved, Null, actorItems, targetSelectorEnabled,
                                sourceToken)
    /\ UNCHANGED <<itemVars, createdItemId, useCreates, useDeletes, useTargets,
                   hostItems>>
    /\ UNCHANGED useFrame

\* createEmbeddedDocuments answers: the copy is on the actor, or nothing was
\* created (an empty array, or the call throws)
UseCreated(c, answer, targetSelectorEnabled, sourceToken) ==
    /\ usePc[c] = "creating"
    /\ useCreates' = [useCreates EXCEPT ![c] = @ + 1]
    /\ IF answer = "created"
       THEN /\ nextId <= Len(IdPool)
            /\ LET id == IdPool[nextId]
                   items == actorItems \cup
                                {[id |-> id, name |-> useResolved[c].name]}
               IN  /\ actorItems' = items
                   /\ createdItemId' = [createdItemId EXCEPT ![c] = id]
                   /\ itemToUse' = [itemToUse EXCEPT ![c] = id]
                   /\ Targeting(c, useResolved[c], id, items, targetSelectorEnabled,
                                sourceToken)
            /\ nextId' = nextId + 1
       ELSE /\ usePc' = [usePc EXCEPT ![c] = "done"]
            /\ useOutcome' = [useOutcome EXCEPT ![c] = "createFailed"]
            /\ UNCHANGED <<itemVars, createdItemId, itemToUse, useInvoked>>
    /\ UNCHANGED <<useResolved, useDeletes, useTargets, hostItems>>
    /\ UNCHANGED useFrame

\* startTargetSelection answers
UseTargets(c, r) ==
    /\ usePc[c] = "targeting"
    /\ useTargets' = [useTargets EXCEPT ![c] = r]
    /\ IF r = "throws"
       THEN /\ usePc' = [usePc EXCEPT ![c] = CleanupPc(createdItemId[c], "targetError",
                                                   actorItems)]
            /\ useOutcome' = [useOutcome EXCEPT ![c] = "targetError"]
            /\ UNCHANGED useInvoked
       ELSE IF TargetsCancelled(r)
       THEN /\ usePc' = [usePc EXCEPT ![c] = CleanupPc(createdItemId[c], "cancelled",
                                                   actorItems)]
            /\ useOutcome' = [useOutcome EXCEPT ![c] = "cancelled"]
            /\ UNCHANGED useInvoked
       ELSE UseOrGiveUp(c, useResolved[c], createdItemId[c], actorItems)
    /\ UNCHANGED <<itemVars, useResolved, createdItemId, itemToUse,
                   useCreates, useDeletes, hostItems>>
    /\ UNCHANGED useFrame

\* item.use() settles: it returns or throws, and the host may have consumed
\* the item while it ran; then the finally block decides on the cleanup
UseSettled(c, how, consumed) ==
    /\ usePc[c] = "using"
    /\ actorItems' = IF consumed THEN RemoveItem(actorItems, itemToUse[c])
                     ELSE actorItems
    /\ hostItems' = IF consumed THEN RemoveItem(hostItems, itemToUse[c])
                    ELSE hostItems
    /\ usePc' = [usePc EXCEPT ![c] = CleanupPc(createdItemId[c], how, actorItems')]
    /\ useOutcome' = [useOutcome EXCEPT ![c] =
                         IF how = "throws" THEN "useThrew" ELSE "used"]
    /\ UNCHANGED <<nextId, useResolved, createdItemId, itemToUse, useCreates,
                   useDeletes, useInvoked, useTargets>>
    /\ UNCHANGED useFrame

\* actor.deleteEmbeddedDocuments('Item', [createdItemId]) takes effect
UseCleanup(c) ==
    /\ usePc[c] = "cleanup"
    /\ actorItems' = RemoveItem(actorItems, createdItemId[c])
    /\ useDeletes' = [useDeletes EXCEPT ![c] = @ + 1]
    /\ usePc' = [usePc EXCEPT ![c] = "done"]
    /\ UNCHANGED <<nextId, useResolved, createdItemId, itemToUse, useCreates,
                   useInvoked, useOutcome, useTargets, hostItems>>
    /\ UNCHANGED useFrame

\* the actor's items before any handler ran
InitialItemSets == { {}, {[id |-> "i1", name |-> "Longsword"]} }

ItemsInit ==
    /\ actorItems \in InitialItemSets
    /\ nextId = 2

UseInit ==
    /\ usePc = [c \in Calls |-> "idle"]
    /\ useResolved = [c \in Calls |-> NoResolved]
    /\ createdItemId = [c \in Calls |-> Null]
    /\ itemToUse = [c \in Calls |-> Null]
    /\ useCreates = [c \in Calls |-> 0]
    /\ useDeletes = [c \in Calls |-> 0]
    /\ useInvoked = [c \in Calls |-> 0]
    /\ useOutcome = [c \in Calls |-> Null]
    /\ useTargets = [c \in Calls |-> "notAsked"]
    /\ hostItems = actorItems

(***************************************************************************)
(* DnD5eCPRAutoPopulate.populateQuickAccess                                *)
(***************************************************************************)
\* the populateQuickAccess runs that may be in flight together
Runs == {"first", "second"}

\* most cells a run fills
MaxQuickActions == 6

\* longest actionUuids list handed to populateQuickAccess
MaxUuids == 7

\* ids of the entries of a CPR actions pack, in the order of its index
ActionPool == <<"u1", "u2", "u3", "u4", "u5", "u6", "u7", "u8">>

\* entry.name of each pack entry (two entries share a name)
ActionName == [u1 |-> "Help", u2 |-> "Disengage", u3 |-> "Ready", u4 |-> "Disengage", u5 |-> "Dash", u6 |-> "Search", u7 |-> "Dodge", u8 |-> "Hide"]

\* the place of a name in the order of localeCompare
NameRank == [Dash |-> 1, Disengage |-> 2, Dodge |-> 3, Grapple |-> 4, Help |-> 5, Hide |-> 6, Ready |-> 7, Search |-> 8]

\* getCPRConfig(): the configuration for a rules version
GetCPRConfig(version) ==
    IF version = "modern"
    THEN [packId |-> <<"chris-premades", ".", "CPRActions", "2024">>, defaultActions |-> <<"Dash", "Disengage", "Dodge", "Help", "Hide", "Ready">>, isModern |-> TRUE, settingsKey |-> "selectedCPRActionsModern"]
    ELSE [packId |-> <<"chris-premades", ".", "CPRActions">>, defaultActions |-> <<"Dash", "Disengage", "Dodge", "Grapple", "Help", "Hide">>, isModern |-> FALSE, settingsKey |-> "selectedCPRActionsLegacy"]

\* the values of setting dnd5e.rulesVersion
RulesVersions == {"modern", "legacy"}

SettingsKeys == {"selectedCPRActionsModern", "selectedCPRActionsLegacy"}

\* `Compendium.${packId}.Item.${id}`, a string as the list of its pieces
ActionUuid(packId, id) == <<"Compendium", ".">> \o packId \o <<".", "Item", ".", id>>

\* the id a uuid ends with
UuidId(uuid) == uuid[Len(uuid)]

\* the ids fromUuid may fail to resolve
Unresolvable == {{}, {"u2"}}

Reverse(seq) == [i \in 1..Len(seq) |-> seq[Len(seq) + 1 - i]]

\* the lists of selected actions tried: the first n actions of the pool, and
\* the longest list backwards
IdLists == {SubSeq(ActionPool, 1, n) : n \in {0, 2, MaxQuickActions, MaxUuids}} \cup {Reverse(SubSeq(ActionPool, 1, MaxUuids))}

\* the same lists as uuids of a pack
UuidLists(packId) == {[i \in 1..Len(ids) |-> ActionUuid(packId, ids[i])] : ids \in IdLists}

\* game.settings.get(MODULE_ID, cprConfig.settingsKey) || []
SelectedActions == cprSettings[GetCPRConfig(rulesVersion).settingsKey]

\* selectedActions.slice(0, 6)
Slice6(seq) == IF Len(seq) <= 6 THEN seq ELSE SubSeq(seq, 1, 6)

\* for (const uuid of actionUuids) { item = await fromUuid(uuid); if (item) push }
ResolveActions(uuids, bad) == SelectSeq(uuids, LAMBDA u : UuidId(u) \notin bad)

\* insert u in a list sorted by name, behind the entries that do not sort
\* after it (Array.prototype.sort is stable)
RECURSIVE InsertByName(_, _)
InsertByName(sorted, u) ==
    IF sorted = <<>> THEN <<u>>
    ELSE IF NameRank[ActionName[UuidId(sorted[Len(sorted)])]] <= NameRank[ActionName[UuidId(u)]] THEN Append(sorted, u)
    ELSE Append(InsertByName(SubSeq(sorted, 1, Len(sorted) - 1), u), sorted[Len(sorted)])

\* resolvedActions.sort((a, b) => a.name.localeCompare(b.name)).map(a => a.uuid)
RECURSIVE SortByName(_)
SortByName(seq) ==
    IF seq = <<>> THEN <<>>
    ELSE InsertByName(SortByName(SubSeq(seq, 1, Len(seq) - 1)), seq[Len(seq)])

\* a variant of SlotKey that puts the row first
SlotKeyRowCol(col, row) == <<row, col>>

\* `${col}-${row}`
SlotKey(col, row) == <<col, row>>

\* grid.items[key] = cell
SetCell(items, key, uuid) == {x \in items : x.key # key} \cup {[key |-> key, uuid |-> uuid, type |-> "Item"]}

\* Math.min(sortedUuids.length, 6)
MaxActions(n) == IF n < MaxQuickActions THEN n ELSE MaxQuickActions

\* the loop over i < maxActions: cells 0..k-1 written into items
RECURSIVE FillCells(_, _, _, _)
FillCells(items, sortedUuids, cols, k) ==
    IF k = 0 THEN items
    ELSE LET i == k - 1
             row == i \div cols
             col == i % cols
         IN  SetCell(FillCells(items, sortedUuids, cols, k - 1), SlotKey(col, row), sortedUuids[k])

\* local state before loadState has answered
NoState == [quickAccess |-> [defined |-> FALSE, grids |-> <<>>], hotbar |-> 0]

\* state.quickAccess undefined
NoQuickAccess == [defined |-> FALSE, grids |-> <<>>]

\* { grids: [{ rows: 2, cols: 3, items: {} }] }
DefaultQuickAccess == [defined |-> TRUE, grids |-> <<[rows |-> 2, cols |-> 3, itemsDefined |-> TRUE, items |-> {}]>>]

\* state.quickAccess?.grids?.[0]?.items || {}
ExistingItems(state) ==
    IF state.quickAccess.defined /\ Len(state.quickAccess.grids) > 0 /\ state.quickAccess.grids[1].itemsDefined
    THEN state.quickAccess.grids[1].items
    ELSE {}

\* a variant of HasExistingItems that lets a single item pass
HasExistingItemsButOne(state) == Cardinality(ExistingItems(state)) > 1

\* Object.keys(existingItems).length > 0
HasExistingItems(state) == Cardinality(ExistingItems(state)) > 0

\* if (!state.quickAccess || !Array.isArray(state.quickAccess.grids)) ...
EnsureQuickAccess(state) ==
    IF state.quickAccess.defined THEN state ELSE [state EXCEPT !.quickAccess = DefaultQuickAccess]

\* an item the user has put in a cell by hand
UserCell == [key |-> SlotKey(1, 1), uuid |-> <<"Actor", ".", "a1", ".", "Item", ".", "i1">>, type |-> "Item"]

\* quick-access layouts the persisted state may hold before a run
QuickAccessLayouts ==
    {NoQuickAccess, [defined |-> TRUE, grids |-> <<>>]}
    \cup {[defined |-> TRUE, grids |-> <<[rows |-> 2, cols |-> c, itemsDefined |-> d, items |-> it]>>] : c \in {2, 3}, d \in {TRUE}, it \in {{}, {UserCell}}}
    \cup {[defined |-> TRUE, grids |-> <<[rows |-> 2, cols |-> 3, itemsDefined |-> FALSE, items |-> {}]>>]}

\* populateQuickAccess(actor, actionUuids) up to the await of loadState
PopStartLocals(p, actorOk, uuidsOk, uuids) ==
    /\ popUuids' = [popUuids EXCEPT ![p] = IF uuidsOk THEN uuids ELSE <<>>]
    /\ IF ~actorOk \/ ~uuidsOk \/ Len(uuids) = 0
       THEN /\ popPc' = [popPc EXCEPT ![p] = "done"]
            /\ popOutcome' = [popOutcome EXCEPT ![p] = "noInput"]
       ELSE /\ popPc' = [popPc EXCEPT ![p] = "loading"]
            /\ popOutcome' = [popOutcome EXCEPT ![p] = "running"]
    /\ popBad' = [popBad EXCEPT ![p] = {}]
    /\ popState' = [popState EXCEPT ![p] = NoState]
    /\ popLoadedCount' = [popLoadedCount EXCEPT ![p] = 0]
    /\ popSaves' = [popSaves EXCEPT ![p] = 0]
    /\ popRefreshes' = [popRefreshes EXCEPT ![p] = 0]
    /\ UNCHANGED persisted

\* populateQuickAccess(actor, actionUuids) up to loadState
PopStart(p, actorOk, uuidsOk, uuids) ==
    /\ PopStartLocals(p, actorOk, uuidsOk, uuids)
    /\ UNCHANGED popFrame

\* a caller hands populateQuickAccess an actor and a list of its own
PopulateQuickAccess(p, actorOk, uuidsOk) ==
    /\ popPc[p] = "idle"
    /\ PopStart(p, actorOk, uuidsOk, SelectedActions)

\* onTokenChange(token): BG3HUD_TOKEN_CHANGED for a token
OnTokenChange(p, tokenActor, cprActive) ==
    /\ popPc[p] = "idle"
    /\ IF ~tokenActor \/ ~cprActive \/ Len(SelectedActions) = 0
       THEN /\ popPc' = [popPc EXCEPT ![p] = "done"]
            /\ popOutcome' = [popOutcome EXCEPT ![p] = "notCalled"]
            /\ popUuids' = [popUuids EXCEPT ![p] = <<>>]
            /\ popBad' = [popBad EXCEPT ![p] = {}]
            /\ popState' = [popState EXCEPT ![p] = NoState]
            /\ popLoadedCount' = [popLoadedCount EXCEPT ![p] = 0]
            /\ popSaves' = [popSaves EXCEPT ![p] = 0]
            /\ popRefreshes' = [popRefreshes EXCEPT ![p] = 0]
            /\ UNCHANGED persisted
            /\ UNCHANGED popFrame
       ELSE PopStart(p, TRUE, TRUE, Slice6(SelectedActions))

\* loadState answers; the run stops when grid 0 already holds items
PopLoaded(p) ==
    /\ popPc[p] = "loading"
    /\ popState' = [popState EXCEPT ![p] = persisted]
    /\ popLoadedCount' = [popLoadedCount EXCEPT ![p] = Cardinality(ExistingItems(persisted))]
    /\ IF HasExistingItems(persisted)
       THEN /\ popPc' = [popPc EXCEPT ![p] = "done"]
            /\ popOutcome' = [popOutcome EXCEPT ![p] = "hasItems"]
       ELSE /\ popPc' = [popPc EXCEPT ![p] = "resolving"]
            /\ UNCHANGED popOutcome
    /\ UNCHANGED <<persisted, popUuids, popBad, popSaves, popRefreshes>>
    /\ UNCHANGED popFrame

\* the last fromUuid answers: sort, fill the cells, call saveState
PopResolved(p, bad) ==
    /\ popPc[p] = "resolving"
    /\ popBad' = [popBad EXCEPT ![p] = bad]
    /\ LET sortedUuids == SortByName(ResolveActions(popUuids[p], bad))
           state == EnsureQuickAccess(popState[p])
       IN  IF Len(state.quickAccess.grids) = 0
           THEN \* grid is undefined: grid.items throws, the catch logs it
                /\ popPc' = [popPc EXCEPT ![p] = "done"]
                /\ popOutcome' = [popOutcome EXCEPT ![p] = "error"]
                /\ popState' = [popState EXCEPT ![p] = state]
           ELSE LET grid == state.quickAccess.grids[1]
                    items == IF grid.itemsDefined THEN grid.items ELSE {}
                    filled == FillCells(items, sortedUuids, grid.cols, MaxActions(Len(sortedUuids)))
                IN  /\ popState' = [popState EXCEPT ![p] = [state EXCEPT !.quickAccess.grids[1].itemsDefined = TRUE, !.quickAccess.grids[1].items = filled]]
                    /\ popPc' = [popPc EXCEPT ![p] = "saving"]
                    /\ UNCHANGED popOutcome
    /\ UNCHANGED <<persisted, popUuids, popLoadedCount, popSaves, popRefreshes>>
    /\ UNCHANGED popFrame

\* saveState(state) takes effect: the whole HUD state is replaced
PopSaved(p) ==
    /\ popPc[p] = "saving"
    /\ persisted' = popState[p]
    /\ popSaves' = [popSaves EXCEPT ![p] = @ + 1]
    /\ popPc' = [popPc EXCEPT ![p] = "refreshing"]
    /\ UNCHANGED <<popUuids, popBad, popState, popLoadedCount, popRefreshes, popOutcome>>
    /\ UNCHANGED popFrame

\* 50 ms later: refresh the HUD when it shows this actor
PopRefreshed(p, hudShowsActor) ==
    /\ popPc[p] = "refreshing"
    /\ popRefreshes' = [popRefreshes EXCEPT ![p] = IF hudShowsActor THEN @ + 1 ELSE @]
    /\ popPc' = [popPc EXCEPT ![p] = "done"]
    /\ popOutcome' = [popOutcome EXCEPT ![p] = "populated"]
    /\ UNCHANGED <<persisted, popUuids, popBad, popState, popLoadedCount, popSaves>>
    /\ UNCHANGED popFrame

\* the run has returned and its locals are gone
PopReturn(p) ==
    /\ popPc[p] = "done"
    /\ popPc' = [popPc EXCEPT ![p] = "idle"]
    /\ popUuids' = [popUuids EXCEPT ![p] = <<>>]
    /\ popBad' = [popBad EXCEPT ![p] = {}]
    /\ popState' = [popState EXCEPT ![p] = NoState]
    /\ popLoadedCount' = [popLoadedCount EXCEPT ![p] = 0]
    /\ popSaves' = [popSaves EXCEPT ![p] = 0]
    /\ popRefreshes' = [popRefreshes EXCEPT ![p] = 0]
    /\ popOutcome' = [popOutcome EXCEPT ![p] = "none"]
    /\ UNCHANGED persisted
    /\ UNCHANGED popFrame

\* the user empties the quick-access grid
UserClearsQuickAccess ==
    /\ HasExistingItems(persisted)
    /\ persisted' = [persisted EXCEPT !.quickAccess.grids[1].items = {}]
    /\ UNCHANGED <<popPc, popUuids, popBad, popState, popLoadedCount, popSaves, popRefreshes, popOutcome>>
    /\ UNCHANGED popFrame

PopIdle ==
    /\ persisted = [quickAccess |-> DefaultQuickAccess, hotbar |-> 0]
    /\ popPc = [p \in Runs |-> "idle"]
    /\ popUuids = [p \in Runs |-> <<>>]
    /\ popBad = [p \in Runs |-> {}]
    /\ popState = [p \in Runs |-> NoState]
    /\ popLoadedCount = [p \in Runs |-> 0]
    /\ popSaves = [p \in Runs |-> 0]
    /\ popRefreshes = [p \in Runs |-> 0]
    /\ popOutcome = [p \in Runs |-> "none"]

PopInit ==
    /\ persisted \in [quickAccess : QuickAccessLayouts, hotbar : {0}]
    /\ popPc = [p \in Runs |-> "idle"]
    /\ popUuids = [p \in Runs |-> <<>>]
    /\ popBad = [p \in Runs |-> {}]
    /\ popState = [p \in Runs |-> NoState]
    /\ popLoadedCount = [p \in Runs |-> 0]
    /\ popSaves = [p \in Runs |-> 0]
    /\ popRefreshes = [p \in Runs |-> 0]
    /\ popOutcome = [p \in Runs |-> "none"]

\* the settings of a world in which the GM has selected a list of actions
\* for the current rules version
CfgInit ==
    /\ rulesVersion \in RulesVersions
    /\ \E sel \in UuidLists(GetCPRConfig(rulesVersion).packId) : cprSettings = [k \in SettingsKeys |-> IF k = GetCPRConfig(rulesVersion).settingsKey THEN sel ELSE <<>>]

CfgIdle ==
    /\ rulesVersion = "modern"
    /\ cprSettings = [k \in SettingsKeys |-> <<>>]

UseIdle ==
    /\ actorItems = {}
    /\ nextId = 1
    /\ UseInit

(***************************************************************************)
(* The bg3HudReady handler: initializeDefaultActions and                   *)
(* registerAdvantageHooks                                                  *)
(***************************************************************************)
Firings == 1..NumFirings

ADVANTAGE_ROLL_EVENTS == <<"dnd5e.preRollAttackV2", "dnd5e.preRollSavingThrowV2", "dnd5e.preRollSkillV2", "dnd5e.preRollAbilityCheckV2", "dnd5e.preRollConcentrationV2", "dnd5e.preRollDeathSaveV2", "dnd5e.preRollToolV2">>

RollEvents == {ADVANTAGE_ROLL_EVENTS[i] : i \in 1..Len(ADVANTAGE_ROLL_EVENTS)}

\* the pack indexes tried: ids of the entries, in index order
PackIndexes == {ActionPool, <<"u6", "u4", "u5">>, <<"u6">>}

\* Array.from(index.entries()).find(([id, data]) => data.name === actionName)
RECURSIVE FindEntry(_, _)
FindEntry(index, actionName) ==
    IF index = <<>> THEN Null
    ELSE IF ActionName[Head(index)] = actionName THEN Head(index)
    ELSE FindEntry(Tail(index), actionName)

\* the loop over cprConfig.defaultActions: the uuids of the entries found
RECURSIVE DefaultUuids(_, _, _)
DefaultUuids(packId, index, actions) ==
    IF actions = <<>> THEN <<>>
    ELSE LET id == FindEntry(index, Head(actions))
             rest == DefaultUuids(packId, index, Tail(actions))
         IN  IF id # Null THEN <<ActionUuid(packId, id)>> \o rest ELSE rest

\* a variant of PackMissing that takes every pack for present
PackMissingNever(pack) == FALSE

\* !pack
PackMissing(pack) == ~pack

\* a variant of AlreadyConfigured that never finds a selection
AlreadyConfiguredNever(currentSelection) == FALSE

\* currentSelection && currentSelection.length > 0
AlreadyConfigured(currentSelection) == Len(currentSelection) > 0

\* a variant of HooksAlreadyRegistered that ignores the flag
HooksAlreadyRegisteredNever(flag) == FALSE

\* if (advantageHooksRegistered) return
HooksAlreadyRegistered(flag) == flag

\* bg3HudReady fires: the handler runs up to its first await
ReadyStart(f, systemIsDnd5e) ==
    /\ readyPc[f] = "idle"
    /\ readyPc' = [readyPc EXCEPT ![f] = IF systemIsDnd5e THEN "components" ELSE "done"]
    /\ UNCHANGED <<readyConfig, readyDefaults, readySawSelection, readyWrites, readyPackFound, advantageHooksRegistered, hookHandlers, advCalls>>
    /\ UNCHANGED <<cfgVars, readyFrame>>

\* the components are registered; initializeDefaultActions() runs up to its
\* first await
ReadyInitDefaults(f, cprActive, packFound) ==
    /\ readyPc[f] = "components"
    /\ LET cprConfig == GetCPRConfig(rulesVersion)
           currentSelection == cprSettings[cprConfig.settingsKey]
       IN  IF ~cprActive
           THEN /\ readyPc' = [readyPc EXCEPT ![f] = "initialized"]
                /\ UNCHANGED <<readyConfig, readySawSelection, readyPackFound>>
           ELSE /\ readyConfig' = [readyConfig EXCEPT ![f] = rulesVersion]
                /\ readySawSelection' = [readySawSelection EXCEPT ![f] = Len(currentSelection) > 0]
                /\ readyPackFound' = [readyPackFound EXCEPT ![f] = IF AlreadyConfigured(currentSelection) THEN "notAsked" ELSE IF packFound THEN "found" ELSE "missing"]
                /\ readyPc' = [readyPc EXCEPT ![f] = IF AlreadyConfigured(currentSelection) \/ PackMissing(packFound) THEN "initialized" ELSE "indexing"]
    /\ UNCHANGED <<readyDefaults, readyWrites, advantageHooksRegistered, hookHandlers, advCalls>>
    /\ UNCHANGED <<cfgVars, readyFrame>>

\* pack.getIndex() answers (or throws): collect the default uuids
ReadyIndexed(f, throws, index) ==
    /\ readyPc[f] = "indexing"
    /\ LET cprConfig == GetCPRConfig(readyConfig[f])
           defaultUuids == IF throws THEN <<>> ELSE DefaultUuids(cprConfig.packId, index, cprConfig.defaultActions)
       IN  /\ readyDefaults' = [readyDefaults EXCEPT ![f] = defaultUuids]
           /\ readyPc' = [readyPc EXCEPT ![f] = IF Len(defaultUuids) > 0 THEN "setting" ELSE "initialized"]
    /\ UNCHANGED <<readyConfig, readySawSelection, readyWrites, readyPackFound, advantageHooksRegistered, hookHandlers, advCalls>>
    /\ UNCHANGED <<cfgVars, readyFrame>>

\* game.settings.set(MODULE_ID, cprConfig.settingsKey, defaultUuids) takes effect
ReadyDefaultsSet(f) ==
    /\ readyPc[f] = "setting"
    /\ cprSettings' = [cprSettings EXCEPT ![GetCPRConfig(readyConfig[f]).settingsKey] = readyDefaults[f]]
    /\ readyWrites' = [readyWrites EXCEPT ![f] = @ + 1]
    /\ readyPc' = [readyPc EXCEPT ![f] = "initialized"]
    /\ UNCHANGED <<rulesVersion, readyConfig, readyDefaults, readySawSelection, readyPackFound, advantageHooksRegistered, hookHandlers, advCalls>>
    /\ UNCHANGED readyFrame

\* registerAdvantageHooks()
RegisterAdvantageHooks ==
    /\ advCalls' = advCalls + 1
    /\ IF HooksAlreadyRegistered(advantageHooksRegistered)
       THEN UNCHANGED <<advantageHooksRegistered, hookHandlers>>
       ELSE /\ hookHandlers' = [e \in RollEvents |-> hookHandlers[e] + 1]
            /\ advantageHooksRegistered' = TRUE

\* Hooks.call('bg3HudRegistrationComplete'); registerAdvantageHooks()
ReadyFinish(f) ==
    /\ readyPc[f] = "initialized"
    /\ RegisterAdvantageHooks
    /\ readyPc' = [readyPc EXCEPT ![f] = "done"]
    /\ UNCHANGED <<readyConfig, readyDefaults, readySawSelection, readyWrites, readyPackFound>>
    /\ UNCHANGED <<cfgVars, readyFrame>>

\* the GM saves a selection of actions for the current rules version
SelectionSaved(ids) ==
    /\ ids \in {<<>>, <<"u5">>}
    /\ LET cprConfig == GetCPRConfig(rulesVersion)
           sel == [i \in 1..Len(ids) |-> ActionUuid(cprConfig.packId, ids[i])]
       IN  /\ cprSettings[cprConfig.settingsKey] # sel
           /\ cprSettings' = [cprSettings EXCEPT ![cprConfig.settingsKey] = sel]
    /\ UNCHANGED <<rulesVersion, readyVars, readyFrame>>

\* the GM switches the rules version
RulesVersionChanged(version) ==
    /\ version # rulesVersion
    /\ rulesVersion' = version
    /\ UNCHANGED <<cprSettings, readyVars, readyFrame>>

ReadyIdle ==
    /\ readyPc = [f \in Firings |-> "idle"]
    /\ readyConfig = [f \in Firings |-> "modern"]
    /\ readyDefaults = [f \in Firings |-> <<>>]
    /\ readySawSelection = [f \in Firings |-> FALSE]
    /\ readyWrites = [f \in Firings |-> 0]
    /\ advantageHooksRegistered = FALSE
    /\ hookHandlers = [e \in RollEvents |-> 0]
    /\ advCalls = 0
    /\ readyPackFound = [f \in Firings |-> "notAsked"]

(***************************************************************************)
(* handleRollAdvantage                                                     *)
(***************************************************************************)
Rolls == 1..NumRolls

\* a1 is the actor the HUD may show, a2 another actor of the scene
Actors == {"a1", "a2"}

\* values of flag advState ("none": the flag is not set)
AdvStates == {"none", "advBtn", "disBtn"}

\* a variant of HudControls that does not look at the HUD's actor
HudControlsAnyActor(midi, setting, workflowActor, currentActor) == midi /\ setting /\ workflowActor # "none"

\* the guards of handleRollAdvantage, lines 1850-1858
HudControls(midi, setting, workflowActor, currentActor) ==
    IF ~midi THEN FALSE
    ELSE IF ~setting THEN FALSE
    ELSE IF workflowActor = "none" THEN FALSE
    ELSE IF currentActor = "none" \/ currentActor # workflowActor THEN FALSE
    ELSE TRUE

\* the dnd5e system prepares a roll and is about to call the preRoll hook
RollPrepared(r, workflowActor, disadvantage) ==
    /\ rollPc[r] = "idle"
    /\ rollConfig' = [rollConfig EXCEPT ![r] = [workflowActor |-> workflowActor, advantage |-> FALSE, disadvantage |-> disadvantage]]
    /\ rollPc' = [rollPc EXCEPT ![r] = "ready"]
    /\ UNCHANGED <<midiActive, advSetting, hudCurrentActor, advFlags, advOnceApplied>>
    /\ UNCHANGED advFrame

\* handleRollAdvantage(rollConfig) up to its first await
HandleRollAdvantage(r, hasClearState) ==
    /\ rollPc[r] = "ready"
    /\ LET workflowActor == rollConfig[r].workflowActor
       IN  IF ~HudControls(midiActive, advSetting, workflowActor, hudCurrentActor)
           THEN /\ rollPc' = [rollPc EXCEPT ![r] = "done"]
                /\ UNCHANGED <<rollConfig, advOnceApplied>>
           ELSE LET state == advFlags[workflowActor].advState
                    once == advFlags[workflowActor].advOnce
                    next == IF ~once THEN "done" ELSE IF hasClearState THEN "clearState" ELSE "unsetState"
                    applied == IF once THEN [advOnceApplied EXCEPT ![workflowActor] = @ + 1] ELSE advOnceApplied
                IN  IF state = "advBtn"
                    THEN /\ rollConfig' = [rollConfig EXCEPT ![r].advantage = TRUE]
                         /\ rollPc' = [rollPc EXCEPT ![r] = next]
                         /\ advOnceApplied' = applied
                    ELSE IF state = "disBtn"
                    THEN /\ rollConfig' = [rollConfig EXCEPT ![r].disadvantage = TRUE]
                         /\ rollPc' = [rollPc EXCEPT ![r] = next]
                         /\ advOnceApplied' = applied
                    ELSE /\ rollPc' = [rollPc EXCEPT ![r] = "done"]
                         /\ UNCHANGED <<rollConfig, advOnceApplied>>
    /\ UNCHANGED <<midiActive, advSetting, hudCurrentActor, advFlags>>
    /\ UNCHANGED advFrame

\* situationalBonuses.clearState() takes effect: both flags are unset
ClearState(actor) == [advFlags EXCEPT ![actor] = [advState |-> "none", advOnce |-> FALSE]]

RollClearState(r) ==
    /\ rollPc[r] = "clearState"
    /\ advFlags' = ClearState(rollConfig[r].workflowActor)
    /\ rollPc' = [rollPc EXCEPT ![r] = "done"]
    /\ UNCHANGED <<midiActive, advSetting, hudCurrentActor, rollConfig, advOnceApplied>>
    /\ UNCHANGED advFrame

\* workflowActor.unsetFlag(MODULE_ID, 'advState') takes effect
RollUnsetState(r) ==
    /\ rollPc[r] = "unsetState"
    /\ advFlags' = [advFlags EXCEPT ![rollConfig[r].workflowActor].advState = "none"]
    /\ rollPc' = [rollPc EXCEPT ![r] = "unsetOnce"]
    /\ UNCHANGED <<midiActive, advSetting, hudCurrentActor, rollConfig, advOnceApplied>>
    /\ UNCHANGED advFrame

\* workflowActor.unsetFlag(MODULE_ID, 'advOnce') takes effect
RollUnsetOnce(r) ==
    /\ rollPc[r] = "unsetOnce"
    /\ advFlags' = [advFlags EXCEPT ![rollConfig[r].workflowActor].advOnce = FALSE]
    /\ rollPc' = [rollPc EXCEPT ![r] = "done"]
    /\ UNCHANGED <<midiActive, advSetting, hudCurrentActor, rollConfig, advOnceApplied>>
    /\ UNCHANGED advFrame

\* the user presses ADV or DIS on the HUD: the flags of its actor are set
UserSetsAdv(state, once) ==
    /\ hudCurrentActor # "none"
    /\ advFlags[hudCurrentActor] # [advState |-> state, advOnce |-> once]
    /\ advFlags' = [advFlags EXCEPT ![hudCurrentActor] = [advState |-> state, advOnce |-> once]]
    /\ advOnceApplied' = [advOnceApplied EXCEPT ![hudCurrentActor] = 0]
    /\ UNCHANGED <<midiActive, advSetting, hudCurrentActor, rollPc, rollConfig>>
    /\ UNCHANGED advFrame

NoRollConfig == [workflowActor |-> "none", advantage |-> FALSE, disadvantage |-> FALSE]

AdvIdle ==
    /\ midiActive = FALSE
    /\ advSetting = FALSE
    /\ hudCurrentActor = "none"
    /\ advFlags = [a \in Actors |-> [advState |-> "none", advOnce |-> FALSE]]
    /\ rollPc = [r \in Rolls |-> "idle"]
    /\ rollConfig = [r \in Rolls |-> NoRollConfig]
    /\ advOnceApplied = [a \in Actors |-> 0]

AdvInit ==
    /\ \E world \in {<<TRUE, TRUE>>, <<TRUE, FALSE>>, <<FALSE, TRUE>>} : midiActive = world[1] /\ advSetting = world[2]
    /\ hudCurrentActor \in {"none", "a1"}
    /\ advFlags = [a \in Actors |-> IF a = "a1" THEN [advState |-> "none", advOnce |-> FALSE] ELSE [advState |-> "advBtn", advOnce |-> TRUE]]
    /\ rollPc = [r \in Rolls |-> "idle"]
    /\ rollConfig = [r \in Rolls |-> NoRollConfig]
    /\ advOnceApplied = [a \in Actors |-> 0]

(***************************************************************************)
(* DnD5eAdapter.shouldBlockFromHotbar                                      *)
(*                                                                         *)
(* Strings are sequences of tokens, so that startsWith is "is a prefix"    *)
(* and includes is "occurs as a contiguous run"; '' and undefined are the  *)
(* empty sequence, both falsy.                                             *)
(***************************************************************************)
EmptyString == <<>>

StartsWith(str, prefix) ==
    /\ Len(prefix) <= Len(str)
    /\ SubSeq(str, 1, Len(prefix)) = prefix

Includes(str, part) ==
    \E i \in 0..(Len(str) - Len(part)) : SubSeq(str, i + 1, i + Len(part)) = part

\* a || b on strings
OrElse(a, b) == IF a # EmptyString THEN a ELSE b

CPR == <<"Compendium", ".", "chris-premades", ".">>

GenericActionsUuids ==
    { CPR \o <<"CPRMiscellaneous", ".", "Item", ".", "V0rdpb8WPmdYhAjc">>,
      CPR \o <<"CPRMiscellaneous", ".", "Item", ".", "Iz2XtxLReLnXTDiI">> }

\* a variant of IsGenericActionsName that knows the 2024 name only
IsGenericActionsNameModernOnly(name) == name = GA_NAME_MODERN

\* genericActionsNames.includes(item.name)
IsGenericActionsName(name) == name \in {GA_NAME_LEGACY, GA_NAME_MODERN}

\* the value of blocked in what shouldBlockFromHotbar(item) returns
ShouldBlockFromHotbar(item, setting, active) ==
    IF ~item.present THEN FALSE
    ELSE IF ~setting THEN FALSE
    ELSE IF ~active THEN FALSE
    ELSE LET uuid == OrElse(item.uuid, EmptyString)
         IN  IF uuid \in GenericActionsUuids THEN TRUE
             ELSE IF \/ StartsWith(uuid, CPR \o <<"CPRActions", ".">>)
                     \/ StartsWith(uuid, CPR \o <<"CPRActions", "2024", ".">>)
             THEN TRUE
             ELSE IF IsGenericActionsName(item.name) THEN TRUE
             ELSE LET sourceCompendium == OrElse(item.compendiumSource, OrElse(item.sourceId, EmptyString))
                  IN  IF Includes(sourceCompendium, <<"chris-premades", ".", "CPRMiscellaneous">>) THEN TRUE
                      ELSE IF \/ Includes(sourceCompendium, <<"chris-premades", ".", "CPRActions">>)
                              \/ Includes(sourceCompendium, <<"chris-premades", ".", "CPRActions", "2024">>)
                      THEN TRUE
                      ELSE FALSE

\* uuids of dropped items: none, the two Generic Actions items, another item
\* of CPRMiscellaneous, items of CPRActions, CPRActions2024 and of a pack
\* whose name only begins with CPRActions, an embedded item, a dnd5e item
DropUuids ==
    GenericActionsUuids \cup
    { EmptyString,
      CPR \o <<"CPRMiscellaneous", ".", "Item", ".", "x1">>,
      CPR \o <<"CPRActions", ".", "Item", ".", "x1">>,
      CPR \o <<"CPRActions", "2024", ".", "Item", ".", "x1">>,
      CPR \o <<"CPRActions", "Extra", ".", "Item", ".", "x1">>,
      <<"Actor", ".", "a1", ".", "Item", ".", "x1">>,
      <<"Compendium", ".", "dnd5e", ".", "items", ".", "Item", ".", "x1">> }

DropNames == {GA_NAME_LEGACY, GA_NAME_MODERN, "generic actions (2024)", "Dash", Null}

\* values of _stats.compendiumSource and of flags.core.sourceId
DropSources ==
    { EmptyString,
      CPR \o <<"CPRMiscellaneous", ".", "Item", ".", "V0rdpb8WPmdYhAjc">>,
      CPR \o <<"CPRActions", "2024", ".", "Item", ".", "x1">>,
      CPR \o <<"CPRItems", ".", "Item", ".", "x1">>,
      <<"Compendium", ".", "dnd5e", ".", "items", ".", "Item", ".", "x1">> }

NoDropItem == [present |-> FALSE, uuid |-> EmptyString, name |-> Null, compendiumSource |-> EmptyString, sourceId |-> EmptyString]

DropItems ==
    {NoDropItem} \cup
    [present : {TRUE}, uuid : DropUuids, name : DropNames, compendiumSource : DropSources, sourceId : DropSources]

\* an item (or nothing) is dropped on the hotbar
ItemDropped(item) ==
    /\ blockResult = "idle"
    /\ dropItem' = item
    /\ blockResult' = "notCalled"
    /\ UNCHANGED <<blockCPRActions, cprModuleActive>>
    /\ UNCHANGED blockFrame

\* the setting blockCPRActionsOnHotbar is changed
BlockSettingChanged ==
    /\ blockResult = "idle"
    /\ blockCPRActions' = ~blockCPRActions
    /\ UNCHANGED <<dropItem, cprModuleActive, blockResult>>
    /\ UNCHANGED blockFrame

\* adapter.shouldBlockFromHotbar(item) is called for the drop
ShouldBlockCalled ==
    /\ blockResult = "notCalled"
    /\ blockResult' = IF ShouldBlockFromHotbar(dropItem, blockCPRActions, cprModuleActive) THEN "blocked" ELSE "allowed"
    /\ UNCHANGED <<dropItem, blockCPRActions, cprModuleActive>>
    /\ UNCHANGED blockFrame

\* the caller has acted on the answer; the drop is over
DropHandled ==
    /\ blockResult \in {"blocked", "allowed"}
    /\ dropItem' = NoDropItem
    /\ blockResult' = "idle"
    /\ UNCHANGED <<blockCPRActions, cprModuleActive>>
    /\ UNCHANGED blockFrame

BlockIdle ==
    /\ dropItem = NoDropItem
    /\ blockCPRActions = FALSE
    /\ cprModuleActive = FALSE
    /\ blockResult = "idle"

BlockInit ==
    /\ dropItem = NoDropItem
    /\ blockCPRActions \in BOOLEAN
    /\ cprModuleActive \in BOOLEAN
    /\ blockResult = "idle"

(***************************************************************************)
(* DnD5eCPRGenericActionsContainer: visible, render, update, destroy       *)
(***************************************************************************)
\* values of this.actor
ContActors == {"none", "a1", "a2"}

\* get visible()
Visible(cprActive, setting, actor) ==
    IF ~cprActive THEN FALSE
    ELSE IF ~setting THEN FALSE
    ELSE actor # "none"

\* a variant of ClearContent that removes nothing
ClearContentNot(children) == children

\* while (this.element.firstChild) this.element.removeChild(this.element.firstChild)
ClearContent(children) == <<>>

\* render(): it has no await and runs to its end in one piece
Render ==
    LET visible == Visible(contCprActive, enableCPRGenericActions, contActor)
        cleared == ClearContent(contChildren)
    IN  /\ contRenders < MaxRenders
        /\ contRenders' = contRenders + 1
        /\ contElement' = TRUE
        /\ contVisibleSeen' = visible
        /\ IF ~visible
           THEN /\ contDisplay' = "none"
                /\ contChildren' = cleared
           ELSE /\ contDisplay' = "flex"
                /\ contChildren' = Append(cleared, "button")
        /\ contLastOp' = "render"
        /\ UNCHANGED <<contActor, contCprActive, enableCPRGenericActions>>
        /\ UNCHANGED contFrame

\* update(): without an element it is render(), with one only display is set
Update ==
    IF ~contElement
    THEN Render
    ELSE /\ contVisibleSeen' = Visible(contCprActive, enableCPRGenericActions, contActor)
         /\ contDisplay' = IF ~contVisibleSeen' THEN "none" ELSE "flex"
         /\ contLastOp' = "update"
         /\ UNCHANGED <<contActor, contElement, contChildren, contCprActive, enableCPRGenericActions, contRenders>>
         /\ UNCHANGED contFrame

\* destroy(): the content is cleared; super.destroy() of bg3-hud-core then
\* keeps or drops the element
Destroy(keepsElement) ==
    /\ contLastOp # "destroy"
    /\ contChildren' = IF contElement THEN ClearContent(contChildren) ELSE contChildren
    /\ contElement' = (contElement /\ keepsElement)
    /\ contDisplay' = IF contElement' THEN contDisplay ELSE ""
    /\ contLastOp' = "destroy"
    /\ UNCHANGED <<contActor, contCprActive, enableCPRGenericActions, contVisibleSeen, contRenders>>
    /\ UNCHANGED contFrame

\* the setting enableCPRGenericActions is changed
EnableSettingChanged ==
    /\ enableCPRGenericActions' = ~enableCPRGenericActions
    /\ contLastOp' = "world"
    /\ UNCHANGED <<contActor, contElement, contDisplay, contChildren, contCprActive, contVisibleSeen, contRenders>>
    /\ UNCHANGED contFrame

\* the HUD gives the container another actor, or none
ContActorChanged(actor) ==
    /\ actor # contActor
    /\ contActor' = actor
    /\ contLastOp' = "world"
    /\ UNCHANGED <<contElement, contDisplay, contChildren, contCprActive, enableCPRGenericActions, contVisibleSeen, contRenders>>
    /\ UNCHANGED contFrame

ContIdle ==
    /\ contActor = "none"
    /\ contElement = FALSE
    /\ contDisplay = ""
    /\ contChildren = <<>>
    /\ contCprActive = FALSE
    /\ enableCPRGenericActions = FALSE
    /\ contLastOp = "constructed"
    /\ contVisibleSeen = FALSE
    /\ contRenders = 0

\* the state the constructor leaves
ContInit ==
    /\ contActor \in ContActors
    /\ contElement = FALSE
    /\ contDisplay = ""
    /\ contChildren = <<>>
    /\ contCprActive \in BOOLEAN
    /\ enableCPRGenericActions \in BOOLEAN
    /\ contLastOp = "constructed"
    /\ contVisibleSeen = FALSE
    /\ contRenders = 0

(***************************************************************************)
(* DnD5eCPRGenericActionsContainer._onClick                                *)
(***************************************************************************)
CPR_GENERIC_ACTIONS_UUIDS == [legacy |-> CompendiumUuid("ga2014"), modern |-> CompendiumUuid("ga2024")]

\* getCPRGenericActionsUUID()
GetCPRGenericActionsUUID(version) ==
    IF version \in DOMAIN CPR_GENERIC_ACTIONS_UUIDS
    THEN CPR_GENERIC_ACTIONS_UUIDS[version]
    ELSE CPR_GENERIC_ACTIONS_UUIDS.modern

\* itemName
GenericActionsName(version) == IF version = "modern" THEN GA_NAME_MODERN ELSE GA_NAME_LEGACY

\* a variant of FindByName that never finds the item
FindByNameNever(items, name) == Null

\* this.actor.items.find(i => i.name === itemName): its id, Null for undefined
FindByName(items, name) ==
    IF \E i \in items : i.name = name
    THEN (CHOOSE i \in items : i.name = name).id
    ELSE Null

\* _onClick up to its first await: the item is on the actor, or fromUuid is
\* asked for the compendium item
ClickStart ==
    /\ clickPc = "idle"
    /\ LET actorItem == FindByName(actorItems, GenericActionsName(rulesVersion))
       IN  /\ clickHadItem' = (actorItem # Null)
           /\ clickItem' = actorItem
           /\ clickPc' = IF actorItem # Null THEN "use" ELSE "fromUuid"
    /\ clickVersion' = rulesVersion
    /\ clickData' = Null
    /\ clickCreated' = {}
    /\ clickUsed' = Null
    /\ clickOutcome' = "running"
    /\ UNCHANGED itemVars
    /\ UNCHANGED clickFrame

\* fromUuid(uuid) answers
ClickResolved(packOk) ==
    /\ clickPc = "fromUuid"
    /\ LET compendiumItem == FromUuid(GetCPRGenericActionsUUID(clickVersion), packOk)
       IN  IF ~compendiumItem.found
           THEN /\ clickPc' = "idle"
                /\ clickOutcome' = "notFound"
                /\ UNCHANGED clickData
           ELSE /\ clickPc' = "create"
                /\ clickData' = compendiumItem.name
                /\ UNCHANGED clickOutcome
    /\ UNCHANGED <<clickVersion, clickHadItem, clickItem, clickCreated, clickUsed>>
    /\ UNCHANGED itemVars
    /\ UNCHANGED clickFrame

\* createEmbeddedDocuments('Item', [data], {noBG3AutoAdd: true}) answers: the
\* created item, nothing, or it throws
ClickCreated(answer) ==
    /\ clickPc = "create"
    /\ IF answer = "created"
       THEN /\ nextId <= Len(IdPool)
            /\ LET id == IdPool[nextId]
               IN  /\ actorItems' = actorItems \cup {[id |-> id, name |-> clickData]}
                   /\ clickCreated' = clickCreated \cup {[id |-> id, noBG3AutoAdd |-> TRUE]}
                   /\ clickItem' = id
            /\ nextId' = nextId + 1
            /\ clickPc' = "use"
            /\ UNCHANGED clickOutcome
       ELSE /\ clickPc' = "idle"
            /\ clickOutcome' = IF answer = "nothing" THEN "createFailed" ELSE "error"
            /\ UNCHANGED <<itemVars, clickCreated, clickItem>>
    /\ UNCHANGED <<clickVersion, clickHadItem, clickData, clickUsed>>
    /\ UNCHANGED clickFrame

\* the item is used when it has a use function; use() returns or throws
ClickUse(hasUse, throws) ==
    /\ clickPc = "use"
    /\ IF hasUse
       THEN /\ clickUsed' = clickItem
            /\ clickOutcome' = IF throws THEN "error" ELSE "used"
       ELSE /\ clickOutcome' = "cannotUse"
            /\ UNCHANGED clickUsed
    /\ clickPc' = "idle"
    /\ UNCHANGED <<clickVersion, clickHadItem, clickData, clickItem, clickCreated>>
    /\ UNCHANGED itemVars
    /\ UNCHANGED clickFrame

\* the actor's items before the first click: no Generic Actions item, or the
\* one an earlier session left
ClickInitialItemSets ==
    { {},
      {[id |-> "i1", name |-> "Longsword"]},
      {[id |-> "i1", name |-> GA_NAME_LEGACY]},
      {[id |-> "i1", name |-> GA_NAME_MODERN]} }

ClickIdle ==
    /\ clickPc = "idle"
    /\ clickVersion = "modern"
    /\ clickHadItem = FALSE
    /\ clickData = Null
    /\ clickItem = Null
    /\ clickCreated = {}
    /\ clickUsed = Null
    /\ clickOutcome = "none"

ClickInit ==
    /\ actorItems \in ClickInitialItemSets
    /\ nextId = 2
    /\ ClickIdle

(***************************************************************************)
(* CPRActionsSelectionDialog                                               *)
(***************************************************************************)
MAX_SELECTIONS == 6

\* the uuids of the pack's documents
DialogUuids == {ActionPool[i] : i \in 1..NumDialogActions}

SeqToSet(seq) == {seq[i] : i \in 1..Len(seq)}

\* Set.prototype.add on a set kept in insertion order
SetAdd(seq, uuid) == IF uuid \in SeqToSet(seq) THEN seq ELSE Append(seq, uuid)

\* Set.prototype.delete
SetDelete(seq, uuid) == SelectSeq(seq, LAMBDA x : x # uuid)

\* a variant of HasRoom that lets one more in
HasRoomInclusive(size) == size <= MAX_SELECTIONS

\* this.selectedActions.size < MAX_SELECTIONS
HasRoom(size) == size < MAX_SELECTIONS

\* cb.disabled = !cb.checked && this.selectedActions.size >= MAX_SELECTIONS
DisabledFor(checked, selected) ==
    [u \in DOMAIN checked |-> ~checked[u] /\ Len(selected) >= MAX_SELECTIONS]

\* _onCheckboxChange(checkbox, uuid), entered with checkbox.checked = checked
OnCheckboxChange(uuid, checked) ==
    /\ dlgLastChange' = [uuid |-> uuid, checked |-> checked, sizeBefore |-> Len(selectedActions)]
    /\ IF checked
       THEN IF HasRoom(Len(selectedActions))
            THEN /\ selectedActions' = SetAdd(selectedActions, uuid)
                 /\ dlgChecked' = [dlgChecked EXCEPT ![uuid] = TRUE]
                 /\ dlgWarned' = FALSE
            ELSE /\ dlgChecked' = [dlgChecked EXCEPT ![uuid] = FALSE]
                 /\ dlgWarned' = TRUE
                 /\ UNCHANGED selectedActions
       ELSE /\ selectedActions' = SetDelete(selectedActions, uuid)
            /\ dlgChecked' = [dlgChecked EXCEPT ![uuid] = FALSE]
            /\ dlgWarned' = FALSE
    /\ dlgDisabled' = DisabledFor(dlgChecked', selectedActions')
    /\ UNCHANGED <<dlgOpen, availableActions, dlgResolved>>
    /\ UNCHANGED dlgFrame

\* a change event of a row's checkbox: the browser has toggled it.  forced
\* stands for an event dispatched to a disabled checkbox by a script.
CheckboxChange(uuid, forced) ==
    /\ dlgOpen
    /\ uuid \in availableActions
    /\ dlgDisabled[uuid] <=> forced
    /\ OnCheckboxChange(uuid, ~dlgChecked[uuid])

\* a click on the row outside its checkbox
RowClick(uuid) ==
    /\ dlgOpen
    /\ uuid \in availableActions
    /\ ~dlgDisabled[uuid]
    /\ OnCheckboxChange(uuid, ~dlgChecked[uuid])

DlgPending == [state |-> "pending", value |-> <<>>]

\* _onConfirm(): Save
OnConfirm ==
    /\ dlgOpen
    /\ dlgOpen' = FALSE
    /\ dlgResolved' = [state |-> "saved", value |-> selectedActions]
    /\ UNCHANGED <<availableActions, selectedActions, dlgChecked, dlgDisabled, dlgLastChange, dlgWarned>>
    /\ UNCHANGED dlgFrame

\* _onCancel(): Cancel or Escape
OnCancel ==
    /\ dlgOpen
    /\ dlgOpen' = FALSE
    /\ dlgResolved' = [state |-> "cancelled", value |-> <<>>]
    /\ UNCHANGED <<availableActions, selectedActions, dlgChecked, dlgDisabled, dlgLastChange, dlgWarned>>
    /\ UNCHANGED dlgFrame

NoChange == [uuid |-> Null, checked |-> FALSE, sizeBefore |-> 0]

\* options.selectedActions: nothing, fewer than six, six, six with a uuid the
\* pack does not hold
InitialSelections ==
    { <<>>,
      <<"u7", "u2">>,
      <<"u1", "u2", "u3", "u4", "u5">>,
      <<"u1", "u2", "u3", "u4", "u5", "u6">>,
      <<"stale", "u1", "u2", "u3", "u4", "u5">> }

DlgIdle ==
    /\ dlgOpen = FALSE
    /\ availableActions = {}
    /\ selectedActions = <<>>
    /\ dlgChecked = [u \in {} |-> FALSE]
    /\ dlgDisabled = [u \in {} |-> FALSE]
    /\ dlgLastChange = NoChange
    /\ dlgWarned = FALSE
    /\ dlgResolved = DlgPending

\* the dialog as the constructor, _loadAvailableActions and _renderDialog
\* leave it; packFound is whether game.packs.get(packId) gave the pack
DlgInit ==
    /\ dlgOpen = TRUE
    /\ \E packFound \in BOOLEAN : availableActions = IF packFound THEN DialogUuids ELSE {}
    /\ selectedActions \in InitialSelections
    /\ dlgChecked = [u \in availableActions |-> u \in SeqToSet(selectedActions)]
    /\ dlgDisabled = DisabledFor(dlgChecked, selectedActions)
    /\ dlgLastChange = NoChange
    /\ dlgWarned = FALSE
    /\ dlgResolved = DlgPending

(***************************************************************************)
(* getContainerContents                                                    *)
(***************************************************************************)
\* the p-th entry of system.contents: an object with a uuid at odd places, the
\* uuid itself at even ones
ContentAt(p) == IF p % 2 = 1 THEN [uuid |-> p, self |-> 0] ELSE [uuid |-> 0, self |-> p]

\* content.uuid || content
ContentRef(content) == IF content.uuid # 0 THEN content.uuid ELSE content.self

\* containers: null, one without system.contents, one per number of contents
Containers ==
    {[present |-> FALSE, hasContents |-> FALSE, contents |-> <<>>],
     [present |-> TRUE, hasContents |-> FALSE, contents |-> <<>>]} \cup
    {[present |-> TRUE, hasContents |-> TRUE, contents |-> [p \in 1..n |-> ContentAt(p)]] : n \in 0..MaxContents}

\* a variant of RequiredRows that rounds down
RequiredRowsFloor(index) == IF index \div 5 > 3 THEN index \div 5 ELSE 3

\* Math.max(3, Math.ceil(index / 5))
RequiredRows(index) ==
    LET ceil == (index + 4) \div 5
    IN  IF ceil > 3 THEN ceil ELSE 3

NoGridData == [rows |-> 0, cols |-> 0, items |-> {}]

\* getContainerContents(containerItem, actor) up to the loop
GetContainerContents(containerItem) ==
    /\ gcPc = "idle"
    /\ IF ~containerItem.present
       THEN /\ gcResult' = [rows |-> 3, cols |-> 5, items |-> {}]
            /\ gcPc' = "done"
            /\ UNCHANGED gcContents
       ELSE /\ gcContents' = IF containerItem.hasContents THEN containerItem.contents ELSE <<>>
            /\ gcPc' = "loop"
            /\ UNCHANGED gcResult
    /\ UNCHANGED <<gcPos, gcIndex, gcItems, gcFetched>>
    /\ UNCHANGED gcFrame

\* one turn of the loop: fromUuid answers for the next content
GcFromUuid(resolves) ==
    /\ gcPc = "loop"
    /\ gcPos < Len(gcContents)
    /\ resolves \/ gcPos - gcIndex < MaxSkipped
    /\ gcPos' = gcPos + 1
    /\ IF ~resolves
       THEN UNCHANGED <<gcIndex, gcItems, gcFetched>>
       ELSE LET uuid == ContentRef(gcContents[gcPos + 1])
                col == gcIndex % 5
                row == gcIndex \div 5
            IN  /\ gcItems' = SetCell(gcItems, SlotKey(col, row), uuid)
                /\ gcIndex' = gcIndex + 1
                /\ gcFetched' = Append(gcFetched, uuid)
    /\ UNCHANGED <<gcPc, gcContents, gcResult>>
    /\ UNCHANGED gcFrame

\* the loop is over: the grid data is returned
GcReturn ==
    /\ gcPc = "loop"
    /\ gcPos = Len(gcContents)
    /\ gcResult' = [rows |-> RequiredRows(gcIndex), cols |-> 5, items |-> gcItems]
    /\ gcPc' = "done"
    /\ UNCHANGED <<gcContents, gcPos, gcIndex, gcItems, gcFetched>>
    /\ UNCHANGED gcFrame

GcIdle ==
    /\ gcPc = "idle"
    /\ gcContents = <<>>
    /\ gcPos = 0
    /\ gcIndex = 0
    /\ gcItems = {}
    /\ gcFetched = <<>>
    /\ gcResult = NoGridData

(***************************************************************************)
(* DnD5eAdapter.autoPopulatePassives                                       *)
(***************************************************************************)
\* system.activities: absent, or a Map, array or object of some size
NoActivities == [kind |-> "absent", size |-> 0]

Activities(kind, size) == [kind |-> kind, size |-> size]

\* what an item of the actor can look like: type, system.activities and
\* system.activation.type ("unset" when there is none)
ItemShapes ==
    { [type |-> "feat", activities |-> Activities(k, n), activation |-> "unset"] : k \in {"map", "array", "object"}, n \in {0, 1} } \cup
    { [type |-> "feat", activities |-> NoActivities, activation |-> a] : a \in {"unset", "", "none", "action"} } \cup
    { [type |-> "feat", activities |-> Activities("map", 0), activation |-> "action"],
      [type |-> "weapon", activities |-> NoActivities, activation |-> "unset"],
      [type |-> "weapon", activities |-> Activities("map", 0), activation |-> "unset"] }

\* a variant of LegacyActivated that takes 'none' for an activation
LegacyActivatedAlsoNone(activation) == activation \notin {"unset", ""}

\* feat.system?.activation?.type && feat.system.activation.type !== 'none'
LegacyActivated(activation) == activation \notin {"unset", ""} /\ activation # "none"

\* the filter for passive feats
IsPassiveFeat(feat) ==
    LET activities == feat.activities
    IN  IF activities.kind = "map" THEN activities.size = 0
        ELSE IF activities.kind = "array" THEN activities.size = 0
        ELSE IF activities.kind = "object" THEN activities.size = 0
        ELSE IF LegacyActivated(feat.activation) THEN FALSE
        ELSE TRUE

\* feats.filter(...).map(feat => feat.uuid) from the i-th item on; the uuid of
\* an item is its place in actor.items
RECURSIVE PassiveUuidsFrom(_, _)
PassiveUuidsFrom(items, i) ==
    IF i > Len(items) THEN <<>>
    ELSE IF items[i].type = "feat" /\ IsPassiveFeat(items[i]) THEN <<i>> \o PassiveUuidsFrom(items, i + 1)
    ELSE PassiveUuidsFrom(items, i + 1)

\* passiveUuids
PassiveUuids(items) == PassiveUuidsFrom(items, 1)

\* autoPopulatePassives(actor): the guards, then setFlag
AutoPopulatePassives ==
    /\ passPc = "idle"
    /\ passPc' = "done"
    /\ IF ~passActor.present THEN UNCHANGED <<selectedPassives, passWrites>>
       ELSE IF ~autoPopulatePassivesEnabled THEN UNCHANGED <<selectedPassives, passWrites>>
       ELSE /\ selectedPassives' = [set |-> TRUE, value |-> PassiveUuids(passActor.items)]
            /\ passWrites' = passWrites + 1
    /\ UNCHANGED <<passActor, autoPopulatePassivesEnabled>>
    /\ UNCHANGED passFrame

\* the actors handed in: null, or one with up to MaxActorItems items
PassActors ==
    {[present |-> FALSE, items |-> <<>>]} \cup
    UNION { {[present |-> TRUE, items |-> its] : its \in [1..n -> ItemShapes]} : n \in 0..MaxActorItems }

NoFlag == [set |-> FALSE, value |-> <<>>]

\* the flag before the call: unset, or what an earlier selection left
PassFlagsBefore == {NoFlag, [set |-> TRUE, value |-> <<1>>]}

PassIdle ==
    /\ passActor = [present |-> FALSE, items |-> <<>>]
    /\ autoPopulatePassivesEnabled = FALSE
    /\ selectedPassives = NoFlag
    /\ passPc = "idle"
    /\ passWrites = 0

PassInit ==
    /\ passActor \in PassActors
    /\ autoPopulatePassivesEnabled \in BOOLEAN
    /\ selectedPassives \in PassFlagsBefore
    /\ passPc = "idle"
    /\ passWrites = 0

(***************************************************************************)
(* Token creation: DnD5eCPRAutoPopulate.onTokenCreation and the host's     *)
(* population of the new token's HUD state.  Time is counted in steps of   *)
(* 50 ms; an awaited host call may take any time.                          *)
(***************************************************************************)
\* setTimeout(resolve, 200)
WAIT_TICKS == 4

\* the index entries as uuids of the pack, sorted by name, the first six
FallbackUuids(packId, index) ==
    Slice6(SortByName([i \in 1..Len(index) |-> ActionUuid(packId, index[i])]))

\* onTokenCreation(actor) up to the timeout
OnTokenCreation(actorOk, enableAutoPopulate, cprActive) ==
    /\ tcPc = "idle"
    /\ IF ~actorOk \/ ~enableAutoPopulate \/ ~cprActive
       THEN /\ tcPc' = "returned"
            /\ tcOutcome' = "skipped"
            /\ UNCHANGED tcTimerAt
       ELSE /\ tcPc' = "waiting"
            /\ tcTimerAt' = tcClock + WAIT_TICKS
            /\ UNCHANGED tcOutcome
    /\ UNCHANGED <<tcClock, hostPc, hostReadyAt>>
    /\ UNCHANGED popVars
    /\ UNCHANGED tcFrame

\* the timeout has run out: the selection is read; with none the pack is
\* looked up, else populateQuickAccess gets the first six
TcTimerFired(packFound) ==
    /\ tcPc = "waiting"
    /\ tcClock >= tcTimerAt
    /\ IF Len(SelectedActions) = 0
       THEN /\ IF PackMissing(packFound)
               THEN tcPc' = "returned" /\ tcOutcome' = "packNotFound"
               ELSE tcPc' = "index" /\ tcOutcome' = "fallback"
            /\ UNCHANGED popVars
       ELSE /\ tcPc' = "handed"
            /\ tcOutcome' = "selected"
            /\ PopStartLocals("first", TRUE, TRUE, Slice6(SelectedActions))
    /\ UNCHANGED <<tcClock, tcTimerAt, hostPc, hostReadyAt>>
    /\ UNCHANGED tcFrame

\* pack.getIndex() answers, or throws into the catch
TcIndexed(throws, index) ==
    /\ tcPc = "index"
    /\ IF throws
       THEN /\ tcPc' = "returned"
            /\ tcOutcome' = "error"
            /\ UNCHANGED popVars
       ELSE /\ tcPc' = "handed"
            /\ PopStartLocals("first", TRUE, TRUE, FallbackUuids(GetCPRConfig(rulesVersion).packId, index))
            /\ UNCHANGED tcOutcome
    /\ UNCHANGED <<tcClock, tcTimerAt, hostPc, hostReadyAt>>
    /\ UNCHANGED tcFrame

\* what the host populates after grid0
HostNext == [grid0 |-> "grid1", grid1 |-> "grid2", grid2 |-> "passives", passives |-> "done"]

\* the host's write of a grid, or of the passives, has taken effect; the next
\* one is started 50 ms later
HostPopulated ==
    /\ hostPc # "done"
    /\ tcClock >= hostReadyAt
    /\ persisted' = IF hostPc = "passives" THEN persisted ELSE [persisted EXCEPT !.hotbar = @ + 1]
    /\ hostPc' = HostNext[hostPc]
    /\ hostReadyAt' = tcClock + 1
    /\ UNCHANGED <<tcClock, tcPc, tcTimerAt, tcOutcome>>
    /\ UNCHANGED <<popPc, popUuids, popBad, popState, popLoadedCount, popSaves, popRefreshes, popOutcome>>
    /\ UNCHANGED tcFrame

\* 50 ms pass
Tick ==
    /\ tcClock < MaxTicks
    /\ tcClock' = tcClock + 1
    /\ UNCHANGED <<tcPc, tcTimerAt, tcOutcome, hostPc, hostReadyAt>>
    /\ UNCHANGED popVars
    /\ UNCHANGED tcFrame

TcIdle ==
    /\ tcClock = 0
    /\ tcPc = "idle"
    /\ tcTimerAt = 0
    /\ tcOutcome = "none"
    /\ hostPc = "done"
    /\ hostReadyAt = 0

\* a token has just been created: the host starts with grid 0
TcInit ==
    /\ tcClock = 0
    /\ tcPc = "idle"
    /\ tcTimerAt = 0
    /\ tcOutcome = "none"
    /\ hostPc = "grid0"
    /\ hostReadyAt = 0

(***************************************************************************)
(* Specifications                                                          *)
(***************************************************************************)
InitUse == ItemsInit /\ UseInit /\ CfgIdle /\ PopIdle /\ ReadyIdle /\ AdvIdle /\ BlockIdle /\ ContIdle /\ ClickIdle /\ DlgIdle /\ GcIdle /\ PassIdle /\ TcIdle

NextUse ==
    \/ \E c \in Calls, uuid \in UseUuids,
          packOk, hasUse, needsT, hud, ctl, sel, tok \in BOOLEAN :
            UseStart(c, uuid, packOk, hasUse, needsT, hud, ctl, sel, tok)
    \/ \E c \in Calls, answer \in {"created", "empty", "throws"},
          sel, tok \in BOOLEAN : UseCreated(c, answer, sel, tok)
    \/ \E c \in Calls, r \in TargetResults : UseTargets(c, r)
    \/ \E c \in Calls, how \in {"returns", "throws"}, consumed \in BOOLEAN :
            UseSettled(c, how, consumed)
    \/ \E c \in Calls : UseCleanup(c)

SpecUse == InitUse /\ [][NextUse]_vars

InitPop == PopInit /\ CfgInit /\ UseIdle /\ ReadyIdle /\ AdvIdle /\ BlockIdle /\ ContIdle /\ ClickIdle /\ DlgIdle /\ GcIdle /\ PassIdle /\ TcIdle

NextPop ==
    \/ \E p \in Runs, actorOk, uuidsOk \in BOOLEAN : PopulateQuickAccess(p, actorOk, uuidsOk)
    \/ \E p \in Runs, tokenActor, cprActive \in BOOLEAN : OnTokenChange(p, tokenActor, cprActive)
    \/ \E p \in Runs : PopLoaded(p)
    \/ \E p \in Runs, bad \in Unresolvable : PopResolved(p, bad)
    \/ \E p \in Runs : PopSaved(p)
    \/ \E p \in Runs, hudShowsActor \in BOOLEAN : PopRefreshed(p, hudShowsActor)
    \/ \E p \in Runs : PopReturn(p)
    \/ UserClearsQuickAccess

SpecPop == InitPop /\ [][NextPop]_vars

InitReady == ReadyIdle /\ CfgIdle /\ UseIdle /\ PopIdle /\ AdvIdle /\ BlockIdle /\ ContIdle /\ ClickIdle /\ DlgIdle /\ GcIdle /\ PassIdle /\ TcIdle

NextReady ==
    \/ \E f \in Firings, systemIsDnd5e \in BOOLEAN : ReadyStart(f, systemIsDnd5e)
    \/ \E f \in Firings, cprActive, packFound \in BOOLEAN : ReadyInitDefaults(f, cprActive, packFound)
    \/ \E f \in Firings, throws \in BOOLEAN, index \in PackIndexes : ReadyIndexed(f, throws, index)
    \/ \E f \in Firings : ReadyDefaultsSet(f)
    \/ \E f \in Firings : ReadyFinish(f)
    \/ \E ids \in {<<>>, <<"u5">>} : SelectionSaved(ids)
    \/ \E version \in RulesVersions : RulesVersionChanged(version)

SpecReady == InitReady /\ [][NextReady]_vars

InitAdv == AdvInit /\ CfgIdle /\ UseIdle /\ PopIdle /\ ReadyIdle /\ BlockIdle /\ ContIdle /\ ClickIdle /\ DlgIdle /\ GcIdle /\ PassIdle /\ TcIdle

NextAdv ==
    \/ \E r \in Rolls, workflowActor \in Actors \cup {"none"}, disadvantage \in BOOLEAN : RollPrepared(r, workflowActor, disadvantage)
    \/ \E r \in Rolls, hasClearState \in BOOLEAN : HandleRollAdvantage(r, hasClearState)
    \/ \E r \in Rolls : RollClearState(r)
    \/ \E r \in Rolls : RollUnsetState(r)
    \/ \E r \in Rolls : RollUnsetOnce(r)
    \/ \E state \in AdvStates, once \in BOOLEAN : UserSetsAdv(state, once)

SpecAdv == InitAdv /\ [][NextAdv]_vars

InitBlock == BlockInit /\ CfgIdle /\ UseIdle /\ PopIdle /\ ReadyIdle /\ AdvIdle /\ ContIdle /\ ClickIdle /\ DlgIdle /\ GcIdle /\ PassIdle /\ TcIdle

NextBlock ==
    \/ \E item \in DropItems : ItemDropped(item)
    \/ BlockSettingChanged
    \/ ShouldBlockCalled
    \/ DropHandled

SpecBlock == InitBlock /\ [][NextBlock]_vars

InitRender == ContInit /\ CfgIdle /\ UseIdle /\ PopIdle /\ ReadyIdle /\ AdvIdle /\ BlockIdle /\ ClickIdle /\ DlgIdle /\ GcIdle /\ PassIdle /\ TcIdle

NextRender ==
    \/ Render
    \/ Update
    \/ \E keepsElement \in BOOLEAN : Destroy(keepsElement)
    \/ EnableSettingChanged
    \/ \E actor \in ContActors : ContActorChanged(actor)

SpecRender == InitRender /\ [][NextRender]_vars

InitClick == ClickInit /\ UseInit /\ CfgIdle /\ PopIdle /\ ReadyIdle /\ AdvIdle /\ BlockIdle /\ ContIdle /\ DlgIdle /\ GcIdle /\ PassIdle /\ TcIdle

NextClick ==
    \/ ClickStart
    \/ \E packOk \in BOOLEAN : ClickResolved(packOk)
    \/ \E answer \in {"created", "nothing", "throws"} : ClickCreated(answer)
    \/ \E hasUse \in BOOLEAN, throws \in BOOLEAN : ClickUse(hasUse, throws)
    \/ \E version \in RulesVersions : RulesVersionChanged(version)

SpecClick == InitClick /\ [][NextClick]_vars

InitDialog == DlgInit /\ CfgIdle /\ UseIdle /\ PopIdle /\ ReadyIdle /\ AdvIdle /\ BlockIdle /\ ContIdle /\ ClickIdle /\ GcIdle /\ PassIdle /\ TcIdle

NextDialog ==
    \/ \E uuid \in DialogUuids, forced \in BOOLEAN : CheckboxChange(uuid, forced)
    \/ \E uuid \in DialogUuids : RowClick(uuid)
    \/ OnConfirm
    \/ OnCancel

SpecDialog == InitDialog /\ [][NextDialog]_vars

InitContents == GcIdle /\ CfgIdle /\ UseIdle /\ PopIdle /\ ReadyIdle /\ AdvIdle /\ BlockIdle /\ ContIdle /\ ClickIdle /\ DlgIdle /\ PassIdle /\ TcIdle

NextContents ==
    \/ \E containerItem \in Containers : GetContainerContents(containerItem)
    \/ \E resolves \in BOOLEAN : GcFromUuid(resolves)
    \/ GcReturn

SpecContents == InitContents /\ [][NextContents]_vars

InitPassives == PassInit /\ CfgIdle /\ UseIdle /\ PopIdle /\ ReadyIdle /\ AdvIdle /\ BlockIdle /\ ContIdle /\ ClickIdle /\ DlgIdle /\ GcIdle /\ TcIdle

NextPassives == AutoPopulatePassives

SpecPassives == InitPassives /\ [][NextPassives]_vars

InitCreate == TcInit /\ PopInit /\ CfgInit /\ UseIdle /\ ReadyIdle /\ AdvIdle /\ BlockIdle /\ ContIdle /\ ClickIdle /\ DlgIdle /\ GcIdle /\ PassIdle

NextCreate ==
    \/ \E actorOk, enableAutoPopulate, cprActive \in BOOLEAN : OnTokenCreation(actorOk, enableAutoPopulate, cprActive)
    \/ \E packFound \in BOOLEAN : TcTimerFired(packFound)
    \/ \E throws \in BOOLEAN, index \in PackIndexes : TcIndexed(throws, index)
    \/ HostPopulated
    \/ Tick
    \/ PopLoaded("first")
    \/ \E bad \in Unresolvable : PopResolved("first", bad)
    \/ PopSaved("first")
    \/ \E hudShowsActor \in BOOLEAN : PopRefreshed("first", hudShowsActor)

SpecCreate == InitCreate /\ [][NextCreate]_vars

\* The four operations that look up compendium data, in a world with no
\* selection saved: the bg3HudReady handler, onTokenCreation, a click on the
\* Generic Actions button, and _useItem.  They are started one at a time, and
\* a further one is started only while the earlier ones found their data
\* missing; time is followed while the timer of onTokenCreation is pending.
\* Each operation is followed once: firing 1 of the handler and call 1 of
\* _useItem.
InitMissing == ClickInit /\ UseInit /\ CfgIdle /\ PopInit /\ ReadyIdle /\ TcIdle /\ AdvIdle /\ BlockIdle /\ ContIdle /\ DlgIdle /\ GcIdle /\ PassIdle

\* no operation is in flight, and each one that ran found its data missing
NothingStarted ==
    /\ \A f \in Firings : readyPc[f] = "idle" \/ (readyPc[f] = "done" /\ readyPackFound[f] = "missing")
    /\ tcPc = "idle" \/ tcOutcome = "packNotFound"
    /\ clickPc = "idle" /\ clickOutcome \in {"none", "notFound"}
    /\ \A c \in Calls : usePc[c] = "idle" \/ (usePc[c] = "done" /\ ~useResolved[c].found)

NextMissing ==
    \/ NothingStarted /\ \E systemIsDnd5e \in BOOLEAN : ReadyStart(1, systemIsDnd5e)
    \/ \E cprActive, packFound \in BOOLEAN : ReadyInitDefaults(1, cprActive, packFound)
    \/ \E throws \in BOOLEAN, index \in PackIndexes : ReadyIndexed(1, throws, index)
    \/ ReadyDefaultsSet(1)
    \/ ReadyFinish(1)
    \/ NothingStarted /\ \E actorOk, enableAutoPopulate, cprActive \in BOOLEAN : OnTokenCreation(actorOk, enableAutoPopulate, cprActive)
    \/ \E packFound \in BOOLEAN : TcTimerFired(packFound)
    \/ \E throws \in BOOLEAN, index \in PackIndexes : TcIndexed(throws, index)
    \/ tcPc = "waiting" /\ Tick
    \/ PopLoaded("first")
    \/ \E bad \in Unresolvable : PopResolved("first", bad)
    \/ PopSaved("first")
    \/ \E hudShowsActor \in BOOLEAN : PopRefreshed("first", hudShowsActor)
    \/ NothingStarted /\ ClickStart
    \/ \E packOk \in BOOLEAN : ClickResolved(packOk)
    \/ \E answer \in {"created", "nothing", "throws"} : ClickCreated(answer)
    \/ \E hasUse, throws \in BOOLEAN : ClickUse(hasUse, throws)
    \/ NothingStarted /\ \E uuid \in UseUuids, packOk, hasUse, needsT, hud, ctl, sel, tok \in BOOLEAN : UseStart(1, uuid, packOk, hasUse, needsT, hud, ctl, sel, tok)
    \/ \E answer \in {"created", "empty", "throws"}, sel, tok \in BOOLEAN : UseCreated(1, answer, sel, tok)
    \/ \E r \in TargetResults : UseTargets(1, r)
    \/ \E how \in {"returns", "throws"}, consumed \in BOOLEAN : UseSettled(1, how, consumed)
    \/ UseCleanup(1)

SpecMissing == InitMissing /\ [][NextMissing]_vars

\* the call was made with a uuid of a compendium item, and an actor was found
FromCompendium(c) ==
    useResolved[c].found /\ useResolved[c].parent = Null
    /\ useOutcome[c] # "noActor"

\* C1: a _useItem call for a compendium item creates at most one embedded
\* copy, exactly one when item.use() is reached, and when the call has
\* finished the copy is no longer on the actor, whether item.use() returned
\* or threw; with no call in flight the actor's items are the items the
\* actor would hold had _useItem never run.
C1_NoOrphanItem ==
    /\ \A c \in Calls :
          (usePc[c] = "done" /\ FromCompendium(c)) =>
             /\ useCreates[c] <= 1
             /\ createdItemId[c] # Null => ~HasItem(createdItemId[c])
             /\ useOutcome[c] \in {"used", "useThrew"} =>
                    /\ useCreates[c] = 1
                    /\ useInvoked[c] = 1
                    /\ createdItemId[c] # Null
    /\ (\A c \in Calls : usePc[c] \in {"idle", "done"}) =>
          actorItems = hostItems

\* item.use() threw on the temporary copy of a compendium item, and the call
\* has finished after deleting the copy
C1_Witness ==
    \E c \in Calls :
        /\ usePc[c] = "done" /\ FromCompendium(c)
        /\ useOutcome[c] = "useThrew"
        /\ useCreates[c] = 1 /\ useDeletes[c] = 1
        /\ actorItems = hostItems

\* C5: when startTargetSelection answers with no targets (null, undefined or
\* an empty array) or throws, item.use() is never invoked by that call, and
\* once the call has finished a temporary copy it created is off the actor.
C5_CancelledTargetingNeverUses ==
    \A c \in Calls :
        useTargets[c] \in {"null", "undefined", "empty", "throws"} =>
            /\ useInvoked[c] = 0
            /\ usePc[c] \in {"cleanup", "done"}
            /\ (usePc[c] = "done" /\ createdItemId[c] # Null) =>
                   ~HasItem(createdItemId[c])

\* target selection of a temporary copy was cancelled with an empty array and
\* the copy has been deleted
C5_Witness ==
    \E c \in Calls :
        /\ usePc[c] = "done" /\ useTargets[c] = "empty"
        /\ createdItemId[c] # Null /\ useDeletes[c] = 1
        /\ useInvoked[c] = 0

\* C2: a populateQuickAccess run that loaded a state whose grid 0 held at
\* least one item has returned without a saveState and without a HUD
\* refresh, so it never wrote the persisted state.
C2_ExistingItemsNeverOverwritten ==
    \A p \in Runs :
        popLoadedCount[p] > 0 =>
            /\ popPc[p] \in {"done", "idle"}
            /\ popOutcome[p] = "hasItems"
            /\ popSaves[p] = 0
            /\ popRefreshes[p] = 0

\* a run with a non-empty list found an item in grid 0 and returned
C2_Witness ==
    \E p \in Runs :
        /\ popLoadedCount[p] > 0
        /\ popPc[p] = "done"
        /\ Len(popUuids[p]) > 0
        /\ HasExistingItems(persisted)

\* the given uuids that resolve, as a set and by number
ResolvedOf(p) == {popUuids[p][i] : i \in {j \in 1..Len(popUuids[p]) : UuidId(popUuids[p][j]) \notin popBad[p]}}
ResolvedCount(p) == Cardinality({j \in 1..Len(popUuids[p]) : UuidId(popUuids[p][j]) \notin popBad[p]})

\* the run has filled the cells of a grid that was empty when loaded
HasFilled(p) == popPc[p] \in {"saving", "refreshing"}

\* C3: a run on an empty grid 0 with 3 columns fills exactly min(n, 6) cells,
\* n the number of given uuids that resolve; the keys are "col-row" with
\* col = i mod 3 and row = i div 3 for i = 0 .. min(n, 6) - 1, and every cell
\* holds a resolved uuid and type 'Item'.
C3_CellsFilledLeftToRight ==
    \A p \in Runs :
        (HasFilled(p) /\ popState[p].quickAccess.grids[1].cols = 3) =>
            LET n == ResolvedCount(p)
                k == IF n < 6 THEN n ELSE 6
                items == popState[p].quickAccess.grids[1].items
            IN  /\ Cardinality(items) = k
                /\ {x.key : x \in items} = {<<i % 3, i \div 3>> : i \in 0..(k - 1)}
                /\ {x.key : x \in items} \subseteq {<<0, 0>>, <<1, 0>>, <<2, 0>>, <<0, 1>>, <<1, 1>>, <<2, 1>>}
                /\ \A x \in items : x.type = "Item" /\ x.uuid \in ResolvedOf(p)
                /\ Cardinality({x.uuid : x \in items}) = k

\* seven uuids resolved and six cells of a 3-column grid were filled and saved
C3_Witness ==
    \E p \in Runs :
        /\ popPc[p] = "refreshing"
        /\ popState[p].quickAccess.grids[1].cols = 3
        /\ ResolvedCount(p) > 6
        /\ Cardinality(popState[p].quickAccess.grids[1].items) = 6
        /\ persisted = popState[p]

\* C4: a call of initializeDefaultActions that found at least one uuid in the
\* selected-actions setting of the current rules version writes no setting,
\* however many times bg3HudReady fires.
C4_DefaultsOnlyWhenEmpty ==
    \A f \in Firings :
        readySawSelection[f] =>
            /\ readyWrites[f] = 0
            /\ readyPc[f] \in {"initialized", "done"}

\* one firing has set the defaults, a later one found them and wrote nothing
C4_Witness ==
    \E f, g \in Firings :
        /\ f # g
        /\ readyWrites[g] = 1
        /\ readySawSelection[f] /\ readyPc[f] = "done" /\ readyWrites[f] = 0
        /\ Len(SelectedActions) = 6

\* C6: however often bg3HudReady fires and registerAdvantageHooks is called,
\* no roll event has more than one handleRollAdvantage handler, and once
\* registerAdvantageHooks has been called each of the seven events has
\* exactly one.
C6_HooksRegisteredOnce ==
    /\ Cardinality(RollEvents) = 7
    /\ \A e \in RollEvents : hookHandlers[e] <= 1
    /\ advCalls >= 1 => \A e \in RollEvents : hookHandlers[e] = 1
    /\ advCalls = 0 => \A e \in RollEvents : hookHandlers[e] = 0

\* registerAdvantageHooks has been called twice
C6_Witness ==
    /\ advCalls >= 2
    /\ \A e \in RollEvents : hookHandlers[e] = 1

\* the roll's handler is invoked in this step
Handled(r) == rollPc[r] = "ready" /\ rollPc'[r] # "ready"

\* the guards the claim names, on the state the handler is invoked in
C7_Guards(r) ==
    /\ midiActive
    /\ advSetting
    /\ rollConfig[r].workflowActor # "none"
    /\ rollConfig[r].workflowActor = hudCurrentActor

\* C7: an invocation of handleRollAdvantage sets rollConfig.advantage exactly
\* when midi-qol is active, addAdvBtnsMidiQoL is enabled, the workflow actor is
\* the HUD's current actor and its advState is 'advBtn', sets disadvantage
\* under the same guards with 'disBtn', in every other case leaves rollConfig
\* and the actors' flags as they were, and never sets both.
C7_AdvantageOnlyUnderGuards ==
    [][\A r \in Rolls :
        Handled(r) =>
            LET state == IF C7_Guards(r) THEN advFlags[rollConfig[r].workflowActor].advState ELSE "none"
            IN  /\ state = "advBtn" => rollConfig'[r] = [rollConfig[r] EXCEPT !.advantage = TRUE]
                /\ state = "disBtn" => rollConfig'[r] = [rollConfig[r] EXCEPT !.disadvantage = TRUE]
                /\ state = "none" => (rollConfig'[r] = rollConfig[r] /\ advFlags' = advFlags /\ rollPc'[r] = "done")
                /\ ~(rollConfig'[r].advantage # rollConfig[r].advantage /\ rollConfig'[r].disadvantage # rollConfig[r].disadvantage)
      ]_vars

\* the handler has set advantage on a roll that came with disadvantage set,
\* for the HUD's actor
C7_Witness ==
    \E r \in Rolls :
        /\ rollPc[r] = "done"
        /\ rollConfig[r].workflowActor = hudCurrentActor
        /\ rollConfig[r].advantage /\ rollConfig[r].disadvantage
        /\ midiActive /\ advSetting

\* the item's compendium source: _stats.compendiumSource, or flags.core.sourceId
\* when that is not set
CompendiumSourceOf(item) ==
    IF item.compendiumSource # EmptyString THEN item.compendiumSource ELSE item.sourceId

\* the item is a CPR item by one of the four criteria the claim lists
IsCPRItem(item) ==
    \/ item.uuid \in GenericActionsUuids
    \/ StartsWith(item.uuid, CPR \o <<"CPRActions", ".">>)
    \/ StartsWith(item.uuid, CPR \o <<"CPRActions", "2024", ".">>)
    \/ item.name = GA_NAME_LEGACY
    \/ item.name = GA_NAME_MODERN
    \/ Includes(CompendiumSourceOf(item), <<"chris-premades", ".", "CPRMiscellaneous">>)
    \/ Includes(CompendiumSourceOf(item), <<"chris-premades", ".", "CPRActions">>)

\* C8: shouldBlockFromHotbar returns blocked = true exactly when the setting
\* blockCPRActionsOnHotbar is enabled, chris-premades is active and the item
\* is a CPR item by uuid, uuid prefix, name or compendium source; for no
\* item, a disabled setting or an inactive module it returns blocked = false.
C8_BlockedExactlyForCPRItems ==
    blockResult \in {"blocked", "allowed"} =>
        /\ (blockResult = "blocked") <=> (dropItem.present /\ blockCPRActions /\ cprModuleActive /\ IsCPRItem(dropItem))
        /\ (~dropItem.present \/ ~blockCPRActions \/ ~cprModuleActive) => blockResult = "allowed"

\* an embedded item named 'Generic Actions (2014)' with no compendium source
\* was blocked
C8_Witness ==
    /\ blockResult = "blocked"
    /\ dropItem.uuid = <<"Actor", ".", "a1", ".", "Item", ".", "x1">>
    /\ dropItem.name = GA_NAME_LEGACY
    /\ CompendiumSourceOf(dropItem) = EmptyString

\* C9: visible is true iff chris-premades is active, enableCPRGenericActions
\* is enabled and the container has an actor; right after render() the
\* element shows 'flex' with exactly one button child when visible, and
\* 'none' with no children when not, however many times render() has run.
C9_RenderShowsOneButtonOrNothing ==
    contLastOp = "render" =>
        /\ contElement
        /\ contVisibleSeen <=> (contCprActive /\ enableCPRGenericActions /\ contActor # "none")
        /\ contVisibleSeen => (contDisplay = "flex" /\ contChildren = <<"button">>)
        /\ ~contVisibleSeen => (contDisplay = "none" /\ contChildren = <<>>)

\* a render() that found the container visible, after earlier ones
C9_Witness ==
    /\ contLastOp = "render"
    /\ contRenders >= 2
    /\ contVisibleSeen
    /\ Len(contChildren) = 1
    /\ contDisplay = "flex"

\* the actor's Generic Actions items for a rules version
GenericActionsItems(version) == {i \in actorItems : i.name = GenericActionsName(version)}

\* a click has run to its end and none is in flight
ClickOver == clickPc = "idle" /\ clickOutcome # "none"

\* the click went as far as using the item
ClickReachedUse == clickOutcome \in {"used", "cannotUse"} \/ clickUsed # Null

C10_State ==
    /\ \A version \in RulesVersions : Cardinality(GenericActionsItems(version)) <= 1
    /\ \A c \in clickCreated : c.noBG3AutoAdd /\ c.id \in ItemIdsOf(GenericActionsItems(clickVersion))
    /\ Cardinality(clickCreated) <= 1
    /\ clickHadItem => clickCreated = {}
    /\ clickUsed # Null => clickUsed \in ItemIdsOf(GenericActionsItems(clickVersion))
    /\ ClickOver =>
          /\ clickOutcome \in {"notFound", "createFailed"} => (clickCreated = {} /\ clickUsed = Null /\ ~clickHadItem)
          /\ ClickReachedUse <=> Cardinality(GenericActionsItems(clickVersion)) = 1
          /\ (ClickReachedUse /\ ~clickHadItem) => ItemIdsOf(clickCreated) = ItemIdsOf(GenericActionsItems(clickVersion))
          /\ clickOutcome = "used" => clickUsed # Null

C11_AtMostSixSelected ==
    /\ Len(selectedActions) <= 6
    /\ Cardinality(SeqToSet(selectedActions)) = Len(selectedActions)
    /\ (dlgLastChange.checked /\ dlgLastChange.sizeBefore >= 6) =>
          /\ dlgWarned
          /\ ~dlgChecked[dlgLastChange.uuid]
          /\ dlgLastChange.uuid \notin SeqToSet(selectedActions)
          /\ Len(selectedActions) = dlgLastChange.sizeBefore
    /\ dlgResolved.state = "saved" => (Len(dlgResolved.value) <= 6 /\ dlgResolved.value = selectedActions)

\* with six selected, a seventh was tried and rejected, and Save followed
C11_Witness ==
    /\ dlgResolved.state = "saved"
    /\ Len(dlgResolved.value) = 6
    /\ dlgWarned
    /\ dlgLastChange.checked

\* C12: the k-th content that resolves (k from 0, unresolved ones leaving no
\* gap) is stored under key "col-row" with col = k mod 5 and row = k div 5; the
\* result has cols = 5 and rows = max(3, ceil(n / 5)) for n resolved contents,
\* so every key lies inside the grid; a null container gives rows 3, cols 5
\* and no items.
C12_ContentsInFiveColumns ==
    gcPc = "done" =>
        LET n == Len(gcFetched)
            rows == gcResult.rows
        IN  /\ gcResult.cols = 5
            /\ Cardinality(gcResult.items) = n
            /\ \A k \in 0..(n - 1) :
                  \E x \in gcResult.items : x.key = <<k % 5, k \div 5>> /\ x.uuid = gcFetched[k + 1] /\ x.type = "Item"
            /\ rows >= 3 /\ rows * 5 >= n /\ (rows > 3 => (rows - 1) * 5 < n)
            /\ \A x \in gcResult.items : x.key[1] \in 0..4 /\ x.key[2] \in 0..(rows - 1)
            /\ gcContents = <<>> => gcResult = [rows |-> 3, cols |-> 5, items |-> {}]

\* sixteen contents resolved with others skipped in between: a fourth row
C12_Witness ==
    /\ gcPc = "done"
    /\ Len(gcFetched) = 16
    /\ gcPos = 18
    /\ gcResult.rows = 4
    /\ \E x \in gcResult.items : x.key = <<0, 3>>

\* the item is a feat without activities: an empty Map, array or object, or
\* no activities at all and no legacy activation other than 'none'
IsFeatWithoutActivities(it) ==
    /\ it.type = "feat"
    /\ \/ it.activities.kind \in {"map", "array", "object"} /\ it.activities.size = 0
       \/ it.activities.kind = "absent" /\ it.activation \in {"unset", "", "none"}

\* C13: with the setting enabled, autoPopulatePassives sets selectedPassives to
\* exactly the uuids of the actor's feats without activities; with the setting
\* disabled or a null actor it writes no flag.
C13_PassivesAreFeatsWithoutActivities ==
    passPc = "done" =>
        IF passActor.present /\ autoPopulatePassivesEnabled
        THEN /\ passWrites = 1
             /\ selectedPassives.set
             /\ SeqToSet(selectedPassives.value) = {i \in 1..Len(passActor.items) : IsFeatWithoutActivities(passActor.items[i])}
             /\ Cardinality(SeqToSet(selectedPassives.value)) = Len(selectedPassives.value)
        ELSE /\ passWrites = 0
             /\ selectedPassives \in PassFlagsBefore

\* a feat with legacy activation 'none' was selected next to one with
\* activation 'action' that was not
C13_Witness ==
    /\ passPc = "done"
    /\ Len(passActor.items) = 2
    /\ passActor.items[1].activation = "action" /\ passActor.items[1].activities.kind = "absent"
    /\ passActor.items[2].activation = "none"
    /\ selectedPassives = [set |-> TRUE, value |-> <<2>>]

\* the populate run of onTokenCreation has begun to load or write the state
CreationPopulateStarted == tcPc = "handed" /\ popPc["first"] \in {"loading", "resolving", "saving", "refreshing"}

\* C14: on token creation the quick-access population starts only after the
\* host has finished populating grid 0, grid 1, grid 2 and the passives.
C14_PopulateAfterHostFinished ==
    CreationPopulateStarted => hostPc = "done"

\* the CPR pack was looked up by firing f of the bg3HudReady handler and was
\* not there
ReadyPackMissing(f) == readyPackFound[f] = "missing"

\* the uuid of call c was looked up and did not resolve
UseUnresolved(c) == usePc[c] # "idle" /\ ~useResolved[c].found

\* what each operation has come to where its data was missing
C15_State ==
    /\ \A f \in Firings : ReadyPackMissing(f) =>
          /\ readyPc[f] \in {"initialized", "done"}
          /\ readyWrites[f] = 0 /\ readyDefaults[f] = <<>>
    /\ tcOutcome = "packNotFound" =>
          /\ tcPc = "returned"
          /\ popPc["first"] = "idle" /\ popSaves["first"] = 0
    /\ clickOutcome = "notFound" =>
          /\ clickPc = "idle"
          /\ clickCreated = {} /\ clickUsed = Null
    /\ \A c \in Calls : UseUnresolved(c) =>
          /\ usePc[c] = "done"
          /\ useCreates[c] = 0 /\ useInvoked[c] = 0 /\ useDeletes[c] = 0
          /\ createdItemId[c] = Null

\* a step that writes a setting is the write of a firing that found the pack,
\* and a step that writes the HUD state is the save of a populate run that a
\* token creation started after it found the pack
C15_Writers ==
    /\ cprSettings' # cprSettings =>
          \E f \in Firings : readyPackFound[f] = "found" /\ readyWrites'[f] = readyWrites[f] + 1
    /\ persisted' # persisted =>
          tcOutcome = "fallback" /\ popSaves'["first"] = popSaves["first"] + 1

EmbeddedCall(c) == usePc[c] # "idle" /\ useResolved[c].found /\ useResolved[c].parent = "actor"

\* C16: a _useItem call whose uuid resolves to an item already embedded on
\* an actor uses that item itself and never calls createEmbeddedDocuments or
\* deleteEmbeddedDocuments, whether use() returns or throws, the target
\* selection is cancelled or fails, or the item has no use function.
C16_EmbeddedItemUsedDirectly ==
    \A c \in Calls : EmbeddedCall(c) =>
        /\ useCreates[c] = 0 /\ useDeletes[c] = 0
        /\ createdItemId[c] = Null
        /\ usePc[c] \notin {"creating", "cleanup"}
        /\ itemToUse[c] = useResolved[c].id
        /\ useOutcome[c] \in {"used", "useThrew"} => useInvoked[c] = 1

\* a call for an embedded item is over after use() threw
C16_Witness ==
    \E c \in Calls : EmbeddedCall(c) /\ usePc[c] = "done" /\ useOutcome[c] = "useThrew"
\* C17: a state set together with advOnce is given to exactly one roll: once
\* a roll hook has applied it, no second roll event of that actor gets
\* advantage or disadvantage from it, also when the second event fires before
\* the flags have been cleared.
C17_OnceStateAppliedToOneRoll == \A a \in Actors : advOnceApplied[a] <= 1
\* run p executes saveState in this step
Saves(p) == popSaves'[p] = popSaves[p] + 1

\* C18: of populateQuickAccess runs for one actor that overlap, at most one
\* executes saveState, so no run saves over state written after it loaded its
\* copy.  A run saves only after it loaded a grid 0 without items: when it
\* saves, the persisted grid 0 still holds no item (no other run has saved
\* its cells since), and the rest of the HUD state is as it was loaded.
C18_NoSaveOverLaterWrites ==
    [][\A p \in Runs : Saves(p) =>
            /\ ~HasExistingItems(persisted)
            /\ persisted.hotbar = popState[p].hotbar]_vars
====
